---- MODULE Spec2Model ----
(***************************************************************************)
(* A model of the framed message buffers of src/src/buffer.ts              *)
(* (WriteBuffer, WriteMessageBuffer, ReadMessageBuffer, ReadBuffer) and of *)
(* the message waiter of src/src/client.ts (AwaitConnection).              *)
(*                                                                         *)
(* A Buffer is a sequence of bytes (0..255); offsets are 0-based as in the *)
(* source, sequences 1-based.  An object is a record of its fields, and an *)
(* operation is an operator from the object (and its arguments) to the set *)
(* of its outcomes: the object afterwards, the error thrown ("" for none)  *)
(* and the value returned.  The set has more than one element only where   *)
(* the result depends on memory that Buffer.allocUnsafe left               *)
(* uninitialised.                                                          *)
(***************************************************************************)
EXTENDS Integers, Sequences, FiniteSets, TLC

(***************************************************************************)
(* Program constants.                                                      *)
(***************************************************************************)
BUFFER_INC_SIZE == 4096
BUFFER_RING_CAPACITY == 1024

(***************************************************************************)
(* Bounds of the model.                                                    *)
(***************************************************************************)
\* the longest chunk one feed delivers in Spec
MaxChunk == 6
\* the most chunks the caller lets queue up behind the active one in Spec
MaxQueued == 1
\* the largest size the caller passes to readBuffer in Spec
MaxRead == 2
\* how far before the start of its chunk the cursor pos0 may stand for the
\* caller of Spec to go on calling
MaxBack == 1
\* the most typed writes, writeSync and writeFlush that succeed in SpecWrite
MaxWrites == 1
\* the most messages begun in SpecWrite
MaxMessages == 2
\* the most messages pulled in SpecRing
MaxPulled == 2

(***************************************************************************)
(* Values.                                                                 *)
(***************************************************************************)
\* what a byte that Buffer.allocUnsafe left uninitialised may hold
UninitBytes == {0, 1}
\* marks a byte of a freshly allocated buffer that nothing has written yet
Uninit == -1
\* buf0 before the first feed (null)
NullBuffer == << -2 >>

Min(a, b) == IF a < b THEN a ELSE b
Max(a, b) == IF a > b THEN a ELSE b
\* the one element of a set that has one
Only(S) == CHOOSE x \in S : TRUE

RECURSIVE Concat(_)
Concat(ss) == IF ss = <<>> THEN <<>> ELSE Head(ss) \o Concat(Tail(ss))

RECURSIVE SumLen(_)
SumLen(ss) == IF ss = <<>> THEN 0 ELSE Len(Head(ss)) + SumLen(Tail(ss))

(***************************************************************************)
(* Node's Buffer.                                                          *)
(***************************************************************************)
\* Buffer.allocUnsafe(size): size bytes, none of them written
AllocUnsafe(size) == [i \in 1..size |-> Uninit]

\* the contents a buffer may turn out to have once its unwritten bytes are
\* looked at
Contents(buf) ==
  LET U == {i \in 1..Len(buf) : buf[i] = Uninit}
  IN  {[i \in 1..Len(buf) |-> IF i \in U THEN g[i] ELSE buf[i]] : g \in [U -> UninitBytes]}

\* buf.slice(start, end): negative indexes count from the end, both are
\* clamped to the buffer
SliceIndex(n, i) == IF i < 0 THEN Max(n + i, 0) ELSE Min(i, n)
BufferSlice(buf, start, end) ==
  LET s == SliceIndex(Len(buf), start)
      e == SliceIndex(Len(buf), end)
  IN  IF e <= s THEN <<>> ELSE SubSeq(buf, s + 1, e)

\* source.copy(target, targetStart, sourceStart, sourceEnd): copies the bytes
\* [sourceStart, sourceEnd) of source, as many as source holds and target has
\* room for; sourceEnd is an offset into source, not a count
BufferCopy(source, target, targetStart, sourceStart, sourceEnd) ==
  IF targetStart < 0 \/ sourceStart < 0 \/ sourceEnd < 0
  THEN [err |-> "RangeError", target |-> target]
  ELSE IF targetStart >= Len(target) \/ sourceStart >= sourceEnd
  THEN [err |-> "", target |-> target]
  ELSE IF sourceStart > Len(source)
  THEN [err |-> "RangeError", target |-> target]
  ELSE LET nb == Min(Min(sourceEnd - sourceStart, Len(target) - targetStart),
                     Len(source) - sourceStart)
       IN  [err |-> "",
            target |-> [i \in 1..Len(target) |->
                          IF i > targetStart /\ i <= targetStart + nb
                          THEN source[sourceStart + (i - targetStart)]
                          ELSE target[i]]]

\* buf.readUInt8(offset) and its big-endian relatives: a read outside the
\* buffer throws RangeError
ReadUInt8(buf, offset) ==
  IF offset < 0 \/ offset + 1 > Len(buf)
  THEN [err |-> "RangeError", num |-> 0]
  ELSE [err |-> "", num |-> buf[offset + 1]]

ReadUInt16BE(buf, offset) ==
  IF offset < 0 \/ offset + 2 > Len(buf)
  THEN [err |-> "RangeError", num |-> 0]
  ELSE [err |-> "", num |-> buf[offset + 1] * (2^8) + buf[offset + 2]]

ReadInt16BE(buf, offset) ==
  LET r == ReadUInt16BE(buf, offset)
  IN  [err |-> r.err, num |-> IF r.num >= 2^15 THEN r.num - 2^16 ELSE r.num]

\* two's complement: a first byte of 128 or more makes the number negative
ReadInt32BE(buf, offset) ==
  IF offset < 0 \/ offset + 4 > Len(buf)
  THEN [err |-> "RangeError", num |-> 0]
  ELSE LET b0 == buf[offset + 1]
       IN  [err |-> "",
            num |-> (IF b0 >= 128 THEN b0 - 256 ELSE b0) * (2^24)
                    + buf[offset + 2] * (2^16) + buf[offset + 3] * (2^8)
                    + buf[offset + 4]]

\* buf.readUInt32BE(offset): the number is kept as its four base-256 digits
\* (it may exceed the integers of the model checker)
ReadUInt32BE(buf, offset) ==
  IF offset < 0 \/ offset + 4 > Len(buf)
  THEN [err |-> "RangeError", digits |-> <<>>]
  ELSE [err |-> "", digits |-> SubSeq(buf, offset + 1, offset + 4)]

\* the four bytes buf.writeInt32BE(v, ...) stores
Int32Bytes(v) ==
  << (v \div (2^24)) % 256, (v \div (2^16)) % 256, (v \div (2^8)) % 256, v % 256 >>

\* the two bytes buf.writeInt16BE(v, ...) and buf.writeUInt16BE(v, ...) store
Int16Bytes(v) == << (v \div (2^8)) % 256, v % 256 >>

(***************************************************************************)
(* RingBuffer (./ring, imported by buffer.ts): a bounded first-in first-out *)
(* queue, here the sequence of its queued items, oldest first.             *)
(***************************************************************************)
RingNew == <<>>
RingLength(ring) == Len(ring)
RingFull(ring, capacity) == Len(ring) >= capacity
\* enq: a full ring takes nothing more
RingEnq(ring, capacity, item) ==
  IF RingFull(ring, capacity)
  THEN [err |-> "RingBufferError", ring |-> ring]
  ELSE [err |-> "", ring |-> Append(ring, item)]
\* deq: the oldest item, or nothing (null) from an empty ring
RingDeq(ring) ==
  IF ring = <<>>
  THEN [null |-> TRUE, item |-> NullBuffer, ring |-> ring]
  ELSE [null |-> FALSE, item |-> Head(ring), ring |-> Tail(ring)]

(***************************************************************************)
(* ReadMessageBuffer.                                                      *)
(***************************************************************************)
\* the constructor
NewReadMessageBuffer ==
  [bufs |-> RingNew, buf0 |-> NullBuffer, pos0 |-> 0, len0 |-> 0, len |-> 0,
   curMessageType |-> 0, curMessageLen |-> 0, curMessageLenUnread |-> 0,
   curMessageReady |-> FALSE]

\* an outcome of an operation: the buffer afterwards, the error thrown, and
\* the value returned, by its type
Out(s, e, b, n, bf) == [rb |-> s, err |-> e, bool |-> b, num |-> n, buf |-> bf]
Returns(s) == Out(s, "", FALSE, 0, <<>>)
ReturnsBool(s, b) == Out(s, "", b, 0, <<>>)
ReturnsNum(s, n) == Out(s, "", FALSE, n, <<>>)
ReturnsBuf(s, bf) == Out(s, "", FALSE, 0, bf)
Throws(s, e) == Out(s, e, FALSE, 0, <<>>)

\* a feed that reports whether the ring was full before it queued the chunk
feedReportsBefore(s, buf) ==
  IF s.buf0 = NullBuffer \/ (s.pos0 = s.len0 /\ RingLength(s.bufs) = 0)
  THEN LET s1 == [s EXCEPT !.buf0 = buf, !.len0 = Len(buf), !.pos0 = 0,
                           !.len = Len(buf)]
       IN  ReturnsBool(s1, RingFull(s.bufs, BUFFER_RING_CAPACITY))
  ELSE LET q == RingEnq(s.bufs, BUFFER_RING_CAPACITY, buf)
       IN  IF q.err # ""
           THEN Throws(s, q.err)
           ELSE LET s1 == [s EXCEPT !.bufs = q.ring, !.len = @ + Len(buf)]
                IN  ReturnsBool(s1, RingFull(s.bufs, BUFFER_RING_CAPACITY))

\* feed(buf)
feed(s, buf) ==
  IF s.buf0 = NullBuffer \/ (s.pos0 = s.len0 /\ RingLength(s.bufs) = 0)
  THEN LET s1 == [s EXCEPT !.buf0 = buf, !.len0 = Len(buf), !.pos0 = 0,
                           !.len = Len(buf)]
       IN  ReturnsBool(s1, RingFull(s1.bufs, BUFFER_RING_CAPACITY))
  ELSE LET q == RingEnq(s.bufs, BUFFER_RING_CAPACITY, buf)
       IN  IF q.err # ""
           THEN Throws(s, q.err)
           ELSE LET s1 == [s EXCEPT !.bufs = q.ring, !.len = @ + Len(buf)]
                IN  ReturnsBool(s1, RingFull(s1.bufs, BUFFER_RING_CAPACITY))

\* __nextBuf()
nextBuf(s) ==
  LET d == RingDeq(s.bufs)
  IN  IF d.null
      THEN Throws(s, "BufferError")
      ELSE Returns([s EXCEPT !.bufs = d.ring, !.buf0 = d.item, !.pos0 = 0,
                             !.len0 = Len(d.item)])

\* ensureFirstBuf(): the buffer returned is the rb.buf0 of the outcome
ensureFirstBuf(s) ==
  Only({IF n.err # "" THEN n
        ELSE IF n.rb.buf0 = NullBuffer \/ Len(n.rb.buf0) < 1
        THEN Throws(n.rb, "BufferError")
        ELSE n
        : n \in {IF s.pos0 = s.len0 THEN nextBuf(s) ELSE Returns(s)}})

\* a check that compares the size with the bytes fed only, not with the
\* bytes the message has left
checkOverreadLenOnly(s, size) == size > s.len

\* checkOverread(size): TRUE when it throws
checkOverread(s, size) == s.curMessageLenUnread < size \/ size > s.len

\* discardBuffer(size)
RECURSIVE discardLoop(_, _)
discardLoop(s, size) ==
  IF s.pos0 + size > s.len0
  THEN LET nread == s.len0 - s.pos0
       IN  Only({IF e.err # "" THEN e ELSE discardLoop(e.rb, size - nread)
                 : e \in {ensureFirstBuf([s EXCEPT !.pos0 = s.len0,
                                                   !.len = @ - nread])}})
  ELSE Returns([s EXCEPT !.pos0 = @ + size, !.len = @ - size])

discardBuffer(s, size) ==
  Only({IF e.err # "" THEN e ELSE discardLoop(e.rb, size)
        : e \in {ensureFirstBuf(s)}})

\* _finishMessage()
finishMessageInternal(s) ==
  [s EXCEPT !.curMessageLen = 0, !.curMessageLenUnread = 0,
            !.curMessageReady = FALSE, !.curMessageType = 0]

\* the loop of __readBufferCopy: ret is the buffer being filled; the local
\* buf0 of the source is rb.buf0 throughout
RECURSIVE readBufferCopyLoop(_, _, _, _)
readBufferCopyLoop(s, size, ret, retPos) ==
  IF s.pos0 + size > s.len0
  THEN LET nread == s.len0 - s.pos0
           c == BufferCopy(s.buf0, ret, retPos, s.pos0, nread)
       IN  IF c.err # "" THEN Throws(s, c.err)
           ELSE Only({IF e.err # "" THEN e
                      ELSE readBufferCopyLoop(e.rb, size - nread, c.target,
                                              retPos + nread)
                      : e \in {ensureFirstBuf([s EXCEPT !.pos0 = s.len0,
                                                        !.len = @ - nread])}})
  ELSE LET c == BufferCopy(s.buf0, ret, retPos, s.pos0, size)
       IN  IF c.err # "" THEN Throws(s, c.err)
           ELSE ReturnsBuf([s EXCEPT !.pos0 = @ + size, !.len = @ - size],
                           c.target)

\* __readBufferCopy(buf0, size): one outcome for each content the bytes that
\* the copies left unwritten may have
readBufferCopy(s, size) ==
  UNION {IF r.err # "" THEN {r}
         ELSE {ReturnsBuf(r.rb, b) : b \in Contents(r.buf)}
         : r \in {readBufferCopyLoop(s, size, AllocUnsafe(size), 0)}}

\* _readBuffer(size)
readBufferInternal(s, size) ==
  UNION {IF e.err # "" THEN {e}
         ELSE IF size = 0 THEN {ReturnsBuf(e.rb, <<>>)}
         ELSE IF e.rb.pos0 + size < e.rb.len0
         THEN {ReturnsBuf([e.rb EXCEPT !.pos0 = @ + size, !.len = @ - size],
                          BufferSlice(e.rb.buf0, e.rb.pos0, e.rb.pos0 + size))}
         ELSE readBufferCopy(e.rb, size)
         : e \in {ensureFirstBuf(s)}}

\* readBuffer(size)
readBuffer(s, size) ==
  IF checkOverread(s, size) THEN {Throws(s, "BufferError")}
  ELSE {IF r.err # "" THEN r
        ELSE ReturnsBuf([r.rb EXCEPT !.curMessageLenUnread = @ - size], r.buf)
        : r \in readBufferInternal(s, size)}

\* readUUID(): the 16 bytes stand for their hexadecimal rendering
readUUID(s) == readBuffer(s, 16)

\* readChar()
readChar(s) ==
  IF checkOverread(s, 1) THEN {Throws(s, "BufferError")}
  ELSE {IF e.err # "" THEN e
        ELSE LET v == ReadUInt8(e.rb.buf0, e.rb.pos0)
             IN  IF v.err # "" THEN Throws(e.rb, v.err)
                 ELSE ReturnsNum([e.rb EXCEPT !.pos0 = @ + 1,
                                    !.curMessageLenUnread = @ - 1,
                                    !.len = @ - 1], v.num)
        : e \in {ensureFirstBuf(s)}}

\* the fast path of readInt16, readInt32, readUInt16 and readUInt32: v is what
\* the read of size bytes at pos0 gave
readFast(s, size, v) ==
  IF v.err # "" THEN Throws(s, v.err)
  ELSE [Returns([s EXCEPT !.pos0 = @ + size,
                          !.curMessageLenUnread = @ - size,
                          !.len = @ - size]) EXCEPT !.num = v.num]

\* their slow path: _readBuffer(size) and the count of unread bytes; the number
\* is then read at offset 0 of the buffer returned
readSlow(s, size) ==
  {IF r.err # "" THEN r
   ELSE ReturnsBuf([r.rb EXCEPT !.curMessageLenUnread = @ - size], r.buf)
   : r \in readBufferInternal(s, size)}

\* readInt16()
readInt16(s) ==
  IF checkOverread(s, 2) THEN {Throws(s, "BufferError")}
  ELSE UNION {IF e.err # "" THEN {e}
              ELSE IF e.rb.pos0 + 2 < e.rb.len0
              THEN {readFast(e.rb, 2, ReadInt16BE(e.rb.buf0, e.rb.pos0))}
              ELSE {IF r.err # "" THEN r
                    ELSE ReturnsNum(r.rb, ReadInt16BE(r.buf, 0).num)
                    : r \in readSlow(e.rb, 2)}
              : e \in {ensureFirstBuf(s)}}

\* readInt32()
readInt32(s) ==
  IF checkOverread(s, 4) THEN {Throws(s, "BufferError")}
  ELSE UNION {IF e.err # "" THEN {e}
              ELSE IF e.rb.pos0 + 4 < e.rb.len0
              THEN {readFast(e.rb, 4, ReadInt32BE(e.rb.buf0, e.rb.pos0))}
              ELSE {IF r.err # "" THEN r
                    ELSE ReturnsNum(r.rb, ReadInt32BE(r.buf, 0).num)
                    : r \in readSlow(e.rb, 4)}
              : e \in {ensureFirstBuf(s)}}

\* readUInt16()
readUInt16(s) ==
  IF checkOverread(s, 2) THEN {Throws(s, "BufferError")}
  ELSE UNION {IF e.err # "" THEN {e}
              ELSE IF e.rb.pos0 + 2 < e.rb.len0
              THEN {readFast(e.rb, 2, ReadUInt16BE(e.rb.buf0, e.rb.pos0))}
              ELSE {IF r.err # "" THEN r
                    ELSE ReturnsNum(r.rb, ReadUInt16BE(r.buf, 0).num)
                    : r \in readSlow(e.rb, 2)}
              : e \in {ensureFirstBuf(s)}}

\* readUInt32(): the number returned is in buf, as its four base-256 digits
readUInt32(s) ==
  IF checkOverread(s, 4) THEN {Throws(s, "BufferError")}
  ELSE UNION {IF e.err # "" THEN {e}
              ELSE IF e.rb.pos0 + 4 < e.rb.len0
              THEN LET v == ReadUInt32BE(e.rb.buf0, e.rb.pos0)
                   IN  IF v.err # "" THEN {Throws(e.rb, v.err)}
                       ELSE {ReturnsBuf([e.rb EXCEPT !.pos0 = @ + 4,
                                           !.curMessageLenUnread = @ - 4,
                                           !.len = @ - 4], v.digits)}
              ELSE {IF r.err # "" THEN r
                    ELSE ReturnsBuf(r.rb, ReadUInt32BE(r.buf, 0).digits)
                    : r \in readSlow(e.rb, 4)}
              : e \in {ensureFirstBuf(s)}}

\* readLenPrefixedBuffer()
readLenPrefixedBuffer(s) ==
  UNION {IF l.err # "" THEN {l} ELSE readBuffer(l.rb, l.num) : l \in readInt32(s)}

\* readString(): the bytes stand for the string they encode
readString(s) ==
  UNION {IF l.err # "" THEN {l} ELSE readBuffer(l.rb, l.num) : l \in readInt32(s)}

\* takeMessage(), its first step: the type of the message
takeMessageType0(s) ==
  IF s.curMessageType # 0 THEN ReturnsBool(s, TRUE)
  ELSE IF s.len < 1 THEN ReturnsBool(s, FALSE)
  ELSE Only({IF e.err # "" THEN e
             ELSE LET v == ReadUInt8(e.rb.buf0, e.rb.pos0)
                  IN  IF v.err # "" THEN Throws(e.rb, v.err)
                      ELSE ReturnsBool([e.rb EXCEPT !.curMessageType = v.num,
                                          !.pos0 = @ + 1, !.len = @ - 1], TRUE)
             : e \in {ensureFirstBuf(s)}})

\* its second step: the length of the message
takeMessageLen(s) ==
  IF s.curMessageLen # 0 THEN {ReturnsBool(s, TRUE)}
  ELSE IF s.len < 4 THEN {ReturnsBool(s, FALSE)}
  ELSE LET Got(r, n) == ReturnsBool([r EXCEPT !.curMessageLen = n,
                                       !.curMessageLenUnread = n - 4], TRUE)
       IN  UNION {IF e.err # "" THEN {e}
                  ELSE IF e.rb.pos0 + 4 < e.rb.len0
                  THEN LET v == ReadInt32BE(e.rb.buf0, e.rb.pos0)
                       IN  IF v.err # "" THEN {Throws(e.rb, v.err)}
                           ELSE {Got([e.rb EXCEPT !.pos0 = @ + 4,
                                                  !.len = @ - 4], v.num)}
                  ELSE {IF r.err # "" THEN r
                        ELSE Got(r.rb, ReadInt32BE(r.buf, 0).num)
                        : r \in readBufferInternal(e.rb, 4)}
                  : e \in {ensureFirstBuf(s)}}

\* a takeMessage that reports the message ready as soon as its length is known
takeMessageEager(s) ==
  IF s.curMessageReady THEN {ReturnsBool(s, TRUE)}
  ELSE UNION {IF t0.err # "" \/ ~t0.bool THEN {t0}
              ELSE {IF l.err # "" \/ ~l.bool THEN l
                    ELSE ReturnsBool([l.rb EXCEPT !.curMessageReady = TRUE], TRUE)
                    : l \in takeMessageLen(t0.rb)}
              : t0 \in {takeMessageType0(s)}}

\* takeMessage(): in the two steps above, bool says whether to go on
takeMessage(s) ==
  IF s.curMessageReady THEN {ReturnsBool(s, TRUE)}
  ELSE UNION {IF t0.err # "" \/ ~t0.bool THEN {t0}
              ELSE {IF l.err # "" \/ ~l.bool THEN l
                    ELSE IF l.rb.len < l.rb.curMessageLenUnread
                    THEN ReturnsBool(l.rb, FALSE)
                    ELSE ReturnsBool([l.rb EXCEPT !.curMessageReady = TRUE], TRUE)
                    : l \in takeMessageLen(t0.rb)}
              : t0 \in {takeMessageType0(s)}}

\* getMessageType()
getMessageType(s) == s.curMessageType

\* takeMessageType(mtype)
takeMessageType(s, mtype) ==
  IF s.curMessageReady THEN {ReturnsBool(s, s.curMessageType = mtype)}
  ELSE IF s.len >= 1
  THEN UNION {IF e.err # "" THEN {e}
              ELSE LET v == ReadUInt8(e.rb.buf0, e.rb.pos0)
                   IN  IF v.err # "" THEN {Throws(e.rb, v.err)}
                       ELSE IF mtype = v.num THEN takeMessage(e.rb)
                       ELSE {ReturnsBool(e.rb, FALSE)}
              : e \in {ensureFirstBuf(s)}}
  ELSE {ReturnsBool(s, FALSE)}

\* putMessage()
putMessage(s) ==
  IF ~s.curMessageReady THEN Throws(s, "BufferError")
  ELSE IF s.curMessageLenUnread # s.curMessageLen - 4
  THEN Throws(s, "BufferError")
  ELSE Returns([s EXCEPT !.curMessageReady = FALSE])

\* discardMessage()
discardMessage(s) ==
  IF ~s.curMessageReady THEN Throws(s, "BufferError")
  ELSE Only({IF d.err # "" THEN d ELSE Returns(finishMessageInternal(d.rb))
             : d \in {IF s.curMessageLenUnread > 0
                      THEN discardBuffer(s, s.curMessageLenUnread)
                      ELSE Returns(s)}})

\* consumeMessage()
consumeMessage(s) ==
  IF ~s.curMessageReady THEN {Throws(s, "BufferError")}
  ELSE IF s.curMessageLenUnread > 0
  THEN {IF r.err # "" THEN r
        ELSE ReturnsBuf(finishMessageInternal(r.rb), r.buf)
        : r \in readBufferInternal(s, s.curMessageLenUnread)}
  ELSE {ReturnsBuf(finishMessageInternal(s), <<>>)}

\* a finishMessage() that resets the cursor of a ready message whatever is
\* left unread
finishMessageUnread(s) ==
  IF s.curMessageType = 0 \/ ~s.curMessageReady THEN Returns(s)
  ELSE Returns(finishMessageInternal(s))

\* finishMessage()
finishMessage(s) ==
  IF s.curMessageType = 0 \/ ~s.curMessageReady THEN Returns(s)
  ELSE IF s.curMessageLenUnread # 0 THEN Throws(s, "BufferError")
  ELSE Returns(finishMessageInternal(s))

(***************************************************************************)
(* ReadBuffer, the flat reader: its fields buffer, pos and len.            *)
(***************************************************************************)
\* ReadBuffer.alloc()
ReadBufferAlloc == [buffer |-> <<>>, pos |-> 0, len |-> 0]
\* ReadBuffer.init(frb, buffer)
ReadBufferInit(buffer) == [buffer |-> buffer, pos |-> 0, len |-> Len(buffer)]
\* ReadBuffer.slice(frb, buffer, pos, len)
ReadBufferSlice(buffer, pos, len) == [buffer |-> buffer, pos |-> pos, len |-> len]
\* the bytes a flat reader has left to read
ReadBufferBytes(f) == BufferSlice(f.buffer, f.pos, f.len)

\* consumeMessageInto(frb): an outcome holds the buffer afterwards (rb), the
\* error thrown and the reader as it was set up (frb)
consumeMessageInto(s, frb) ==
  IF ~s.curMessageReady
  THEN {[rb |-> s, err |-> "BufferError", frb |-> frb]}
  ELSE IF s.curMessageLenUnread > 0
  THEN IF s.pos0 + s.curMessageLenUnread < s.len0
       THEN LET len == s.pos0 + s.curMessageLenUnread
            IN  {[rb |-> finishMessageInternal(
                           [s EXCEPT !.pos0 = len,
                                     !.len = @ - s.curMessageLenUnread,
                                     !.curMessageLenUnread = 0]),
                  err |-> "",
                  frb |-> ReadBufferSlice(s.buf0, s.pos0, len)]}
       ELSE {IF r.err # "" THEN [rb |-> r.rb, err |-> r.err, frb |-> frb]
             ELSE [rb |-> finishMessageInternal(r.rb), err |-> "",
                   frb |-> ReadBufferInit(r.buf)]
             : r \in readBufferInternal(s, s.curMessageLenUnread)}
  ELSE {[rb |-> finishMessageInternal(s), err |-> "",
         frb |-> ReadBufferInit(<<>>)]}

(***************************************************************************)
(* WriteBuffer.  Its Buffer is a record of its length and of data, the     *)
(* bytes from offset 0 up to the last offset written (Uninit where nothing *)
(* was written); the bytes after data are unwritten too.                   *)
(***************************************************************************)
\* Buffer.allocUnsafe(size), for the buffer of a WriteBuffer
WAllocUnsafe(size) == [length |-> size, data |-> <<>>]

\* n bytes that nothing has written
Unwritten(n) == [i \in 1..n |-> Uninit]

\* the bytes [start, end) of the buffer, for 0 <= start <= end <= length
WRange(buf, start, end) ==
  LET n == Len(buf.data)
  IN  IF end <= n THEN SubSeq(buf.data, start + 1, end)
      ELSE SubSeq(buf.data, start + 1, n) \o Unwritten(end - Max(start, n))

\* buf.writeUInt8 / writeInt16BE / ... (.., offset), once the value has been
\* turned into bytes: a write that does not fit in the buffer throws RangeError
WWrite(buf, bytes, offset) ==
  IF offset < 0 \/ offset + Len(bytes) > buf.length
  THEN [err |-> "RangeError", buf |-> buf]
  ELSE LET n == Len(buf.data)
            before == IF offset <= n THEN SubSeq(buf.data, 1, offset)
                      ELSE buf.data \o Unwritten(offset - n)
            after == SubSeq(buf.data, offset + Len(bytes) + 1, n)
       IN  [err |-> "", buf |-> [buf EXCEPT !.data = before \o bytes \o after]]

\* source.copy(target, targetStart, 0, Len(source)) for a sequence of bytes
\* source: as many bytes as target has room for
WCopyInto(source, target, targetStart) ==
  IF targetStart >= target.length \/ Len(source) = 0 THEN target
  ELSE WWrite(target,
              SubSeq(source, 1, Min(Len(source), target.length - targetStart)),
              targetStart).buf

\* buf.slice(0, end)
WSlice(buf, end) == WRange(buf, 0, Min(end, buf.length))

\* the bytes and the range of the values the typed writes of Buffer take;
\* a value out of range throws RangeError
UInt8Range(v) == v >= 0 /\ v < 2^8
Int16Range(v) == v >= 0 - 2^15 /\ v < 2^15
UInt16Range(v) == v >= 0 /\ v < 2^16
UInt32Range(v) == v >= 0

\* the constructor
NewWriteBuffer ==
  [size |-> BUFFER_INC_SIZE, pos |-> 0, buffer |-> WAllocUnsafe(BUFFER_INC_SIZE)]

\* reset()
WriteBuffer_reset(w) == [w EXCEPT !.pos = 0]

\* __realloc(newSize): size stays what it was
realloc(w, newSize) ==
  LET newBuffer == WAllocUnsafe(newSize + BUFFER_INC_SIZE)
  IN  [w EXCEPT !.buffer =
         WCopyInto(WSlice(w.buffer, w.pos), newBuffer, 0)]

\* ensureAlloced(extraLength)
ensureAlloced(w, extraLength) ==
  LET newSize == w.pos + extraLength
  IN  IF newSize > w.size THEN realloc(w, newSize) ELSE w

\* the typed writes of WriteBuffer: room is made for the bytes, the value is
\* checked and written at pos, and pos moves past it
WriteBuffer_write(w, bytes, inRange) ==
  LET a == ensureAlloced(w, Len(bytes))
      r == WWrite(a.buffer, bytes, a.pos)
  IN  IF ~inRange THEN [w |-> a, err |-> "RangeError"]
      ELSE IF r.err # "" THEN [w |-> a, err |-> r.err]
      ELSE [w |-> [a EXCEPT !.buffer = r.buf, !.pos = @ + Len(bytes)], err |-> ""]

WriteBuffer_writeChar(w, ch) == WriteBuffer_write(w, <<ch % 256>>, UInt8Range(ch))
WriteBuffer_writeInt16(w, i) == WriteBuffer_write(w, Int16Bytes(i), Int16Range(i))
WriteBuffer_writeInt32(w, i) == WriteBuffer_write(w, Int32Bytes(i), TRUE)
WriteBuffer_writeUInt16(w, i) == WriteBuffer_write(w, Int16Bytes(i), UInt16Range(i))
WriteBuffer_writeUInt32(w, i) == WriteBuffer_write(w, Int32Bytes(i), UInt32Range(i))

\* writeBuffer(buf)
WriteBuffer_writeBuffer(w, buf) ==
  LET a == ensureAlloced(w, Len(buf))
  IN  [w |-> [a EXCEPT !.buffer = WCopyInto(buf, a.buffer, a.pos),
                       !.pos = @ + Len(buf)],
       err |-> ""]

\* writeString(s): s is given as its UTF-8 bytes
WriteBuffer_writeString(w, s) ==
  LET a == ensureAlloced(w, Len(s) + 4)
      r == WWrite(a.buffer, Int32Bytes(Len(s)), a.pos)
  IN  IF r.err # "" THEN [w |-> a, err |-> r.err]
      ELSE [w |-> [a EXCEPT !.buffer = WCopyInto(s, r.buf, a.pos + 4),
                            !.pos = @ + 4 + Len(s)],
            err |-> ""]

\* unwrap()
WriteBuffer_unwrap(w) == WSlice(w.buffer, w.pos)

(***************************************************************************)
(* WriteMessageBuffer: a WriteBuffer and the position of the open message. *)
(***************************************************************************)
NewWriteMessageBuffer == [messagePos |-> 0 - 1, buffer |-> NewWriteBuffer]

\* the outcome of a call: the buffer afterwards and the error thrown
WOut(m, e) == [wb |-> m, err |-> e]
\* the outcome of a call that hands its write to the WriteBuffer
WDone(m, r) == WOut([m EXCEPT !.buffer = r.w], r.err)

\* reset()
reset(m) == [m EXCEPT !.buffer = WriteBuffer_reset(m.buffer)]

\* a beginMessage that does not look whether a message is open
beginMessageAnyway(m, mtype) ==
  LET c == WriteBuffer_writeChar(m.buffer, mtype)
  IN  IF c.err # "" THEN WOut([m EXCEPT !.messagePos = m.buffer.pos,
                                        !.buffer = c.w], c.err)
      ELSE WDone([m EXCEPT !.messagePos = m.buffer.pos],
                 WriteBuffer_writeInt32(c.w, 0))

\* beginMessage(mtype)
beginMessage(m, mtype) ==
  IF m.messagePos >= 0 THEN WOut(m, "BufferError")
  ELSE Only({IF c.err # "" THEN WOut([m EXCEPT !.messagePos = m.buffer.pos,
                                               !.buffer = c.w], c.err)
             ELSE WDone([m EXCEPT !.messagePos = m.buffer.pos],
                        WriteBuffer_writeInt32(c.w, 0))
             : c \in {WriteBuffer_writeChar(m.buffer, mtype)}})

\* an endMessage that counts the tag into the length
endMessageWithTag(m) ==
  IF m.messagePos < 0 THEN WOut(m, "BufferError")
  ELSE LET r == WWrite(m.buffer.buffer,
                       Int32Bytes(m.buffer.pos - m.messagePos),
                       m.messagePos + 1)
       IN  IF r.err # "" THEN WOut(m, r.err)
           ELSE WOut([m EXCEPT !.buffer.buffer = r.buf, !.messagePos = 0 - 1], "")

\* endMessage()
endMessage(m) ==
  IF m.messagePos < 0 THEN WOut(m, "BufferError")
  ELSE LET r == WWrite(m.buffer.buffer,
                       Int32Bytes(m.buffer.pos - m.messagePos - 1),
                       m.messagePos + 1)
       IN  IF r.err # "" THEN WOut(m, r.err)
           ELSE WOut([m EXCEPT !.buffer.buffer = r.buf, !.messagePos = 0 - 1], "")

\* the typed writes
writeChar(m, ch) ==
  IF m.messagePos < 0 THEN WOut(m, "BufferError")
  ELSE WDone(m, WriteBuffer_writeChar(m.buffer, ch))
writeString(m, s) ==
  IF m.messagePos < 0 THEN WOut(m, "BufferError")
  ELSE WDone(m, WriteBuffer_writeString(m.buffer, s))
writeInt16(m, i) ==
  IF m.messagePos < 0 THEN WOut(m, "BufferError")
  ELSE WDone(m, WriteBuffer_writeInt16(m.buffer, i))
writeInt32(m, i) ==
  IF m.messagePos < 0 THEN WOut(m, "BufferError")
  ELSE WDone(m, WriteBuffer_writeInt32(m.buffer, i))
writeUInt16(m, i) ==
  IF m.messagePos < 0 THEN WOut(m, "BufferError")
  ELSE WDone(m, WriteBuffer_writeUInt16(m.buffer, i))
writeUInt32(m, i) ==
  IF m.messagePos < 0 THEN WOut(m, "BufferError")
  ELSE WDone(m, WriteBuffer_writeUInt32(m.buffer, i))
writeBuffer(m, buf) ==
  IF m.messagePos < 0 THEN WOut(m, "BufferError")
  ELSE WDone(m, WriteBuffer_writeBuffer(m.buffer, buf))

\* unwrap(): buf is the Buffer returned
unwrap(m) ==
  IF m.messagePos >= 0 THEN [wb |-> m, err |-> "BufferError", buf |-> <<>>]
  ELSE [wb |-> m, err |-> "", buf |-> WriteBuffer_unwrap(m.buffer)]

\* the messages Sync ('S', 83) and Flush ('H', 72), built once
SYNC_MESSAGE == unwrap(endMessage(beginMessage(NewWriteMessageBuffer, 83).wb).wb).buf
FLUSH_MESSAGE == unwrap(endMessage(beginMessage(NewWriteMessageBuffer, 72).wb).wb).buf

\* writeSync() appending the Flush message
writeSyncFlushes(m) ==
  IF m.messagePos >= 0 THEN WOut(m, "BufferError")
  ELSE WDone(m, WriteBuffer_writeBuffer(m.buffer, FLUSH_MESSAGE))

\* writeSync()
writeSync(m) ==
  IF m.messagePos >= 0 THEN WOut(m, "BufferError")
  ELSE WDone(m, WriteBuffer_writeBuffer(m.buffer, SYNC_MESSAGE))

\* writeFlush()
writeFlush(m) ==
  IF m.messagePos >= 0 THEN WOut(m, "BufferError")
  ELSE WDone(m, WriteBuffer_writeBuffer(m.buffer, FLUSH_MESSAGE))

(***************************************************************************)
(* AwaitConnection (client.ts): the fields that waitForMessage, onConnect, *)
(* onError and onData use.  A callback is TRUE when set, FALSE when null.  *)
(***************************************************************************)
\* the constructor: the promise connWaiter is created with its callbacks;
\* sock is the state of the socket, connWaiter that of the promise
NewAwaitConnection ==
  [paused |-> FALSE, sock |-> "connecting", connWaiter |-> "pending",
   messageWaiterResolve |-> FALSE, messageWaiterReject |-> FALSE,
   connWaiterResolve |-> TRUE, connWaiterReject |-> TRUE]

\* a waitForMessage() that installs the callbacks and leaves a paused socket
\* paused
waitForMessageNoResume(c) ==
  [c EXCEPT !.messageWaiterResolve = TRUE, !.messageWaiterReject = TRUE]

\* waitForMessage() when takeMessage() has returned false: the socket is
\* resumed if it was paused and the callbacks of a new promise are kept
waitForMessageSuspend(c) ==
  [c EXCEPT !.paused = FALSE,
            !.sock = IF c.paused /\ @ = "paused" THEN "open" ELSE @,
            !.messageWaiterResolve = TRUE, !.messageWaiterReject = TRUE]

\* onConnect()
onConnect(c) ==
  IF c.connWaiterResolve
  THEN [c EXCEPT !.connWaiter = IF @ = "pending" THEN "resolved" ELSE @,
                 !.connWaiterReject = FALSE, !.connWaiterResolve = FALSE]
  ELSE c

\* onError(err), its first half: the waiter of the connection
onErrorConn(c) ==
  IF c.connWaiterReject
  THEN [c EXCEPT !.connWaiter = IF @ = "pending" THEN "rejected" ELSE @,
                 !.connWaiterReject = FALSE, !.connWaiterResolve = FALSE]
  ELSE c

\* its second half: the waiter of a message
onErrorMessage(c) ==
  IF c.messageWaiterReject
  THEN [c EXCEPT !.messageWaiterResolve = FALSE, !.messageWaiterReject = FALSE]
  ELSE c

\* onData(data), after feed returned pause
onDataPause(c, pause) ==
  IF pause THEN [c EXCEPT !.paused = TRUE, !.sock = "paused"] ELSE c

\* onData(data), once takeMessage() has returned true for a waiter
onDataResolve(c) ==
  [c EXCEPT !.messageWaiterResolve = FALSE, !.messageWaiterReject = FALSE]

\* the promise of a waitForMessage that has just suspended
Pending == [n |-> 0, how |-> "", by |-> "", complete |-> FALSE]

(***************************************************************************)
(* AwaitConnection: the frames it reads.  The tags are the character codes *)
(* of ./chars; the codecs registry and the codecs are those of ./codecs.   *)
(* A codec stands as the type id it is registered under.                   *)
(***************************************************************************)
chr_V == 86
chr_0 == 48
chr_v == 118
chr_Y == 89
chr_R == 82
chr_K == 75
chr_E == 69
chr_Z == 90
chr_S == 83
chr_L == 76
chr_P == 80
chr_1 == 49
chr_D == 68
chr_T == 84
chr_C == 67
chr_H == 72
chr_I == 73
chr_j == 106
chr_b == 98
chr_o == 111
chr_m == 109

AUTH_OK == 0

\* the fields of a new AwaitConnection besides those of NewAwaitConnection;
\* destroyed says whether sock.destroy() has been called
NullCodec == <<>>
KnownTypeId == [i \in 1..16 |-> 2]
NewConnectionFields ==
  [serverXactStatus |-> "TRANS_UNKNOWN", serverSecret |-> 0 - 1,
   lastStatus |-> "null", serverSettings |-> {}, destroyed |-> FALSE,
   known |-> {KnownTypeId}]

\* parseSyncMessage(): the status the byte stands for
XactStatusSwapped(status) ==
  IF status = chr_I THEN "TRANS_INTRANS"
  ELSE IF status = chr_T THEN "TRANS_IDLE"
  ELSE IF status = chr_E THEN "TRANS_INERROR"
  ELSE "TRANS_UNKNOWN"

XactStatus(status) ==
  IF status = chr_I THEN "TRANS_IDLE"
  ELSE IF status = chr_T THEN "TRANS_INTRANS"
  ELSE IF status = chr_E THEN "TRANS_INERROR"
  ELSE "TRANS_UNKNOWN"

\* CodecsRegistry.getCodec(typeId) with the type ids known
getCodec(known, typeId) == IF typeId \in known THEN typeId ELSE NullCodec

\* CodecsRegistry.buildCodec(typeData): the descriptor is a kind and a type id
buildCodec(typeData) ==
  IF Len(typeData) = 17
  THEN [err |-> "", codec |-> SubSeq(typeData, 2, 17)]
  ELSE [err |-> "Error: codec", codec |-> NullCodec]

\* inCodec.encode(wb, []): the length of the blob and the count of elements
EncodeNoArgs == Int32Bytes(4) \o Int32Bytes(0)

\* outCodec.decode(frb): the row is the bytes frb has left
decode(f) == ReadBufferBytes(f)

\* ReadBuffer.discard(size), on the flat reader
ReadBuffer_discard(f, size) ==
  IF f.pos + size > f.len
  THEN [err |-> "BufferError", frb |-> f]
  ELSE [err |-> "", frb |-> [f EXCEPT !.pos = @ + size]]

\* rejectHeaders()
rejectHeaders(s) ==
  {IF n.err # "" THEN n
   ELSE IF n.num # 0 THEN Throws(n.rb, "Error: unexpected headers")
   ELSE Returns(n.rb)
   : n \in readInt16(s)}

\* parseHeaders(): the map it returns is not used by its callers
RECURSIVE parseHeadersLoop(_, _)
parseHeadersLoop(s, numFields) ==
  IF numFields = 0 THEN {Returns(s)}
  ELSE UNION {IF k.err # "" THEN {k}
              ELSE UNION {IF v.err # "" THEN {v}
                          ELSE parseHeadersLoop(v.rb, numFields - 1)
                          : v \in readLenPrefixedBuffer(k.rb)}
              : k \in readInt16(s)}

parseHeaders(s) ==
  UNION {IF n.err # "" THEN {n} ELSE parseHeadersLoop(n.rb, n.num)
         : n \in readInt16(s)}

\* parseErrorMessage(): buf is the message of the Error it returns
parseErrorMessage(s) ==
  UNION {IF sev.err # "" THEN {sev} ELSE
  UNION {IF code.err # "" THEN {code} ELSE
  UNION {IF msg.err # "" THEN {msg} ELSE
         {IF h.err # "" THEN h
          ELSE LET f == finishMessage(h.rb)
               IN  IF f.err # "" THEN f ELSE ReturnsBuf(f.rb, msg.buf)
          : h \in parseHeaders(msg.rb)}
         : msg \in readString(code.rb)}
         : code \in readUInt32(sev.rb)}
         : sev \in readChar(s)}

\* parseCommandCompleteMessage(): buf is the status
parseCommandCompleteMessage(s) ==
  UNION {IF h.err # "" THEN {h} ELSE
         {IF st.err # "" THEN st
          ELSE LET f == finishMessage(st.rb)
               IN  IF f.err # "" THEN f ELSE ReturnsBuf(f.rb, st.buf)
          : st \in readString(h.rb)}
         : h \in rejectHeaders(s)}

\* parseSyncMessage(): an outcome holds the status byte read (num, -1 when
\* none was) and the transaction status set; the status is set before
\* finishMessage() is called
SyncOut(s, e, n, x) == [rb |-> s, err |-> e, num |-> n, serverXactStatus |-> x]
parseSyncMessage(s, xact) ==
  UNION {IF h.err # "" THEN {SyncOut(h.rb, h.err, 0 - 1, xact)} ELSE
         {IF st.err # "" THEN SyncOut(st.rb, st.err, 0 - 1, xact)
          ELSE LET f == finishMessage(st.rb)
               IN  SyncOut(f.rb, f.err, st.num, XactStatus(st.num))
          : st \in readChar(h.rb)}
         : h \in parseHeaders(s)}

\* parseDataMessages(codec, result): an outcome holds the result afterwards
DataOut(s, e, r) == [rb |-> s, err |-> e, result |-> r]
RECURSIVE parseDataMessages(_, _)
parseDataMessages(s, result) ==
  UNION {IF t.err # "" THEN {DataOut(t.rb, t.err, result)}
         ELSE IF ~t.bool THEN {DataOut(t.rb, "", result)}
         ELSE UNION {IF c.err # "" THEN {DataOut(c.rb, c.err, result)}
                     ELSE LET d == ReadBuffer_discard(ReadBufferInit(c.buf), 6)
                          IN  IF d.err # ""
                              THEN {DataOut(c.rb, d.err, result)}
                              ELSE parseDataMessages(
                                     c.rb, Append(result, decode(d.frb)))
                     : c \in consumeMessage(t.rb)}
         : t \in takeMessageType(s, chr_D)}

\* parseDescribeTypeMessage(): an outcome holds the cardinality, the two
\* codecs and the type ids known afterwards
DescOut(s, e, card, ic, oc, known) ==
  [rb |-> s, err |-> e, cardinality |-> card, inCodec |-> ic, outCodec |-> oc,
   known |-> known]
DescCodec(known, typeId, typeData) ==
  IF getCodec(known, typeId) # NullCodec
  THEN [err |-> "", codec |-> getCodec(known, typeId)]
  ELSE buildCodec(typeData)
parseDescribeTypeMessage(s, known) ==
  LET Fail(o) == DescOut(o.rb, o.err, 0, NullCodec, NullCodec, known)
  IN
  UNION {IF h.err # "" THEN {Fail(h)} ELSE
  UNION {IF card.err # "" THEN {Fail(card)} ELSE
  UNION {IF iid.err # "" THEN {Fail(iid)} ELSE
  UNION {IF idata.err # "" THEN {Fail(idata)} ELSE
         LET ic == DescCodec(known, iid.buf, idata.buf)
             k1 == IF ic.err = "" THEN known \cup {ic.codec} ELSE known
         IN
         IF ic.err # "" THEN {Fail(Throws(idata.rb, ic.err))} ELSE
  UNION {IF oid.err # "" THEN {Fail(oid)} ELSE
         {IF odata.err # "" THEN Fail(odata) ELSE
          LET oc == DescCodec(k1, oid.buf, odata.buf)
              f == finishMessage(odata.rb)
          IN  IF oc.err # "" THEN Fail(Throws(odata.rb, oc.err))
              ELSE IF f.err # ""
              THEN DescOut(f.rb, f.err, 0, NullCodec, NullCodec,
                           k1 \cup {oc.codec})
              ELSE DescOut(f.rb, "", card.num, ic.codec, oc.codec,
                           k1 \cup {oc.codec})
          : odata \in readLenPrefixedBuffer(oid.rb)}
         : oid \in readUUID(idata.rb)}
         : idata \in readLenPrefixedBuffer(iid.rb)}
         : iid \in readUUID(card.rb)}
         : card \in readChar(h.rb)}
         : h \in rejectHeaders(s)}

\* fallthrough(): an outcome holds the server settings afterwards
FallOut(s, e, settings) == [rb |-> s, err |-> e, serverSettings |-> settings]
MapSet(map, name, value) ==
  {p \in map : p[1] # name} \cup {<<name, value>>}
fallthrough(s, settings) ==
  LET mtype == getMessageType(s)
  IN  IF mtype = chr_S
      THEN UNION {IF name.err # "" THEN {FallOut(name.rb, name.err, settings)}
                  ELSE {IF value.err # ""
                        THEN FallOut(value.rb, value.err, settings)
                        ELSE LET f == finishMessage(value.rb)
                             IN  FallOut(f.rb, f.err,
                                         MapSet(settings, name.buf, value.buf))
                        : value \in readString(name.rb)}
                  : name \in readString(s)}
      ELSE IF mtype = chr_L
      THEN {FallOut(e.rb, e.err, settings) : e \in parseErrorMessage(s)}
      ELSE {FallOut(s, "Error: unexpected message type", settings)}

\* A call of an async method of the connection: connect() or one of the four
\* fetch methods.  phase says where in its body it is, status whether it is
\* running ("run": about to call takeMessage; "have": a message is taken),
\* suspended in waitForMessage ("wait") or about to go on after its promise
\* was settled ("woken", "rejected"); the other fields are its locals, value
\* what it returned and thrown what it threw.
NewTask(fn, phase) ==
  [fn |-> fn, phase |-> phase, status |-> "run", error |-> "null",
   cardinality |-> 0 - 1, inTypeId |-> NullCodec, outTypeId |-> NullCodec,
   inCodec |-> NullCodec, outCodec |-> NullCodec, result |-> <<>>,
   value |-> [undefined |-> TRUE, rows |-> <<>>], thrown |-> ""]

\* what one pass of a loop body does to the buffer, the connection's fields
\* (with the type ids known to its registry) and the call; err is what it threw
\* and z the status byte its parseSyncMessage() read (-1: none)
StepOut(s, e, c, k) == [rb |-> s, err |-> e, cst |-> c, task |-> k, z |-> 0 - 1]

\* the case of an ErrorResponse in parse and execute: error =
\* parseErrorMessage(); the Error stands as "ServerError"
CaptureError(s, c, k) ==
  {IF e.err # "" THEN StepOut(e.rb, e.err, c, k)
   ELSE StepOut(e.rb, "", c, [k EXCEPT !.error = "ServerError"])
   : e \in parseErrorMessage(s)}

\* the case of a ReadyForCommand: parseSyncMessage() and the end of the loop
SyncAndLeave(s, c, k, next) ==
  {[StepOut(z.rb, z.err,
             [c EXCEPT !.serverXactStatus = z.serverXactStatus],
             IF z.err # "" THEN k ELSE [k EXCEPT !.phase = next])
     EXCEPT !.z = z.num]
   : z \in parseSyncMessage(s, c.serverXactStatus)}

\* the default case: fallthrough()
Fallthrough(s, c, k) ==
  {StepOut(f.rb, f.err, [c EXCEPT !.serverSettings = f.serverSettings], k)
   : f \in fallthrough(s, c.serverSettings)}

\* the body of the loop of connect(), from getMessageType() on
connectFrame(s, c, k) ==
  LET mtype == getMessageType(s)
  IN  IF mtype = chr_v
      THEN UNION {IF hi.err # "" THEN {StepOut(hi.rb, hi.err, c, k)} ELSE
           UNION {IF lo.err # "" THEN {StepOut(lo.rb, lo.err, c, k)} ELSE
                  {IF h.err # "" THEN StepOut(h.rb, h.err, c, k)
                   ELSE LET f == finishMessage(h.rb)
                        IN  IF f.err # "" THEN StepOut(f.rb, f.err, c, k)
                            ELSE IF hi.num # 1 \/ lo.num # 0
                            THEN StepOut(f.rb, "Error: unsupported version", c, k)
                            ELSE StepOut(f.rb, "", c, k)
                   : h \in parseHeaders(lo.rb)}
                  : lo \in readInt16(hi.rb)}
                  : hi \in readInt16(s)}
      ELSE IF mtype = chr_Y
      THEN LET d == discardMessage(s) IN {StepOut(d.rb, d.err, c, k)}
      ELSE IF mtype = chr_R
      THEN {IF st.err # "" THEN StepOut(st.rb, st.err, c, k)
            ELSE IF st.num = AUTH_OK
            THEN LET f == finishMessage(st.rb) IN StepOut(f.rb, f.err, c, k)
            ELSE StepOut(st.rb, "Error: unsupported authentication", c, k)
            : st \in readInt32(s)}
      ELSE IF mtype = chr_K
      THEN {IF sec.err # "" THEN StepOut(sec.rb, sec.err, c, k)
            ELSE LET f == finishMessage(sec.rb)
                 IN  StepOut(f.rb, f.err, [c EXCEPT !.serverSecret = sec.num], k)
            : sec \in readInt32(s)}
      ELSE IF mtype = chr_E
      THEN {IF e.err # "" THEN StepOut(e.rb, e.err, c, k)
            ELSE StepOut(e.rb, "ServerError", c, k)
            : e \in parseErrorMessage(s)}
      ELSE IF mtype = chr_Z
      THEN SyncAndLeave(s, c, k, "done")
      ELSE Fallthrough(s, c, k)

\* the body of the first loop of parse()
parseFrame(s, c, k) ==
  LET mtype == getMessageType(s)
  IN  IF mtype = chr_1
      THEN UNION {IF h.err # "" THEN {StepOut(h.rb, h.err, c, k)} ELSE
           UNION {IF card.err # "" THEN {StepOut(card.rb, card.err, c, k)} ELSE
           UNION {IF iid.err # "" THEN {StepOut(iid.rb, iid.err, c, k)} ELSE
                  {IF oid.err # "" THEN StepOut(oid.rb, oid.err, c, k)
                   ELSE LET f == finishMessage(oid.rb)
                            k1 == [k EXCEPT !.cardinality = card.num,
                                            !.inTypeId = iid.buf,
                                            !.outTypeId = oid.buf]
                        IN  StepOut(f.rb, f.err, c, k1)
                   : oid \in readUUID(iid.rb)}
                  : iid \in readUUID(card.rb)}
                  : card \in readChar(h.rb)}
                  : h \in rejectHeaders(s)}
      ELSE IF mtype = chr_E THEN CaptureError(s, c, k)
      ELSE IF mtype = chr_Z THEN SyncAndLeave(s, c, k, "parsed")
      ELSE Fallthrough(s, c, k)

\* the body of the second loop of parse()
describeFrame(s, c, k) ==
  LET mtype == getMessageType(s)
  IN  IF mtype = chr_T
      THEN {StepOut(d.rb, d.err, [c EXCEPT !.known = d.known],
                    IF d.err # "" THEN k
                    ELSE [k EXCEPT !.cardinality = d.cardinality,
                                   !.inCodec = d.inCodec,
                                   !.outCodec = d.outCodec])
            : d \in parseDescribeTypeMessage(s, c.known)}
      ELSE IF mtype = chr_E THEN CaptureError(s, c, k)
      ELSE IF mtype = chr_Z THEN SyncAndLeave(s, c, k, "described")
      ELSE Fallthrough(s, c, k)

\* the body of the loop of execute()
executeFrame(s, c, k) ==
  LET mtype == getMessageType(s)
  IN  IF mtype = chr_D
      THEN {StepOut(d.rb, d.err, c, [k EXCEPT !.result = d.result])
            : d \in parseDataMessages(s, k.result)}
      ELSE IF mtype = chr_C
      THEN {IF cc.err # "" THEN StepOut(cc.rb, cc.err, c, k)
            ELSE StepOut(cc.rb, "", [c EXCEPT !.lastStatus = cc.buf], k)
            : cc \in parseCommandCompleteMessage(s)}
      ELSE IF mtype = chr_E THEN CaptureError(s, c, k)
      ELSE IF mtype = chr_Z THEN SyncAndLeave(s, c, k, "executed")
      ELSE Fallthrough(s, c, k)

\* the buffers written to the socket, each through a new WriteBuffer (which
\* is WriteMessageBuffer here); a write that throws gives err
WriteOut(m) == IF m.err # "" THEN [err |-> m.err, bytes |-> <<>>]
               ELSE [err |-> unwrap(m.wb).err, bytes |-> unwrap(m.wb).buf]

Edgedb == <<101, 100, 103, 101, 100, 98>>

\* connect() with the two messages of the handshake in the other order
HandshakeBufferAuthFirst ==
  LET M1 == {beginMessage(NewWriteMessageBuffer, chr_0)}
      M2 == {writeString(m.wb, Edgedb) : m \in M1}
      M3 == {writeString(m.wb, Edgedb) : m \in M2}
      M4 == {endMessage(m.wb) : m \in M3}
      M5 == {beginMessage(m.wb, chr_V) : m \in M4}
      M6 == {writeInt16(m.wb, 1) : m \in M5}
      M7 == {writeInt16(m.wb, 0) : m \in M6}
      M8 == {writeInt16(m.wb, 0) : m \in M7}
      M9 == {endMessage(m.wb) : m \in M8}
  IN  Only({WriteOut(m) : m \in M9})

\* connect(): ClientHandshake and AuthenticationRequest
HandshakeBuffer ==
  LET M1 == {beginMessage(NewWriteMessageBuffer, chr_V)}
      M2 == {writeInt16(m.wb, 1) : m \in M1}
      M3 == {writeInt16(m.wb, 0) : m \in M2}
      M4 == {writeInt16(m.wb, 0) : m \in M3}
      M5 == {endMessage(m.wb) : m \in M4}
      M6 == {beginMessage(m.wb, chr_0) : m \in M5}
      M7 == {writeString(m.wb, Edgedb) : m \in M6}
      M8 == {writeString(m.wb, Edgedb) : m \in M7}
      M9 == {endMessage(m.wb) : m \in M8}
  IN  Only({WriteOut(m) : m \in M9})

\* parse(query, asJson, expectOne): the Parse message and Sync, in a new
\* WriteBuffer
ParseMessages(query, asJson, expectOne) ==
  LET M1 == {beginMessage(NewWriteMessageBuffer, chr_P)}
      M2 == {writeInt16(m.wb, 0) : m \in M1}
      M3 == {writeChar(m.wb, IF asJson THEN chr_j ELSE chr_b) : m \in M2}
      M4 == {writeChar(m.wb, IF expectOne THEN chr_o ELSE chr_m) : m \in M3}
      M5 == {writeString(m.wb, <<>>) : m \in M4}
      M6 == {writeString(m.wb, query) : m \in M5}
      M7 == {endMessage(m.wb) : m \in M6}
  IN  {writeSync(m.wb) : m \in M7}
ParseBuffer(query, asJson, expectOne) ==
  Only({WriteOut(m) : m \in ParseMessages(query, asJson, expectOne)})

\* parse(): DescribeStatement and Sync, in the buffer of the Parse, reset
DescribeBuffer(query, asJson, expectOne) ==
  LET M1 == {beginMessage(reset(m.wb), chr_D)
             : m \in ParseMessages(query, asJson, expectOne)}
      M2 == {writeInt16(m.wb, 0) : m \in M1}
      M3 == {writeChar(m.wb, chr_T) : m \in M2}
      M4 == {writeString(m.wb, <<>>) : m \in M3}
      M5 == {endMessage(m.wb) : m \in M4}
      M6 == {writeSync(m.wb) : m \in M5}
  IN  Only({WriteOut(m) : m \in M6})

\* execute(inCodec, outCodec): Execute and Sync
ExecuteBuffer ==
  LET M1 == {beginMessage(NewWriteMessageBuffer, chr_E)}
      M2 == {writeInt16(m.wb, 0) : m \in M1}
      M3 == {writeString(m.wb, <<>>) : m \in M2}
      M4 == {writeBuffer(m.wb, EncodeNoArgs) : m \in M3}
      M5 == {endMessage(m.wb) : m \in M4}
      M6 == {writeSync(m.wb) : m \in M5}
  IN  Only({WriteOut(m) : m \in M6})

(***************************************************************************)
(* The scalar codecs of codecs/numerics on a WriteBuffer and a ReadBuffer. *)
(***************************************************************************)
\* ReadBuffer.readInt32(), on the flat reader
ReadBuffer_readInt32(f) ==
  IF f.pos + 4 > f.len
  THEN [err |-> "BufferError", num |-> 0, frb |-> f]
  ELSE [err |-> "", num |-> ReadInt32BE(f.buffer, f.pos).num,
        frb |-> [f EXCEPT !.pos = @ + 4]]

\* Int16Codec.encode(buf, object)
Int16Codec_encode(w, object) ==
  Only({IF a.err # "" THEN a ELSE WriteBuffer_writeInt16(a.w, object) :
         a \in {WriteBuffer_writeInt32(w, 2)}})

\* Int32Codec.encode(buf, object)
Int32Codec_encode(w, object) ==
  Only({IF a.err # "" THEN a ELSE WriteBuffer_writeInt32(a.w, object) :
         a \in {WriteBuffer_writeInt32(w, 4)}})

\* Int32Codec.decode(buf)
Int32Codec_decode(f) == ReadBuffer_readInt32(f)

\* ToInt32(x) for a number of the range of int32, which is what the model
\* gives the codecs
ToInt32(x) == x

\* x >> n of JavaScript: both operands become int32 and the count is taken
\* modulo 32
ShiftRight(x, n) == ToInt32(x) \div (2 ^ (n % 32))

\* x & 0xffffffff of JavaScript: the mask becomes the int32 -1, whose bits
\* are all set, and the result is an int32
AndAllOnes(x) == ToInt32(x)

\* Int64Codec.encode(buf, object)
Int64Codec_encode(w, object) ==
  Only({IF a.err # "" THEN a
        ELSE Only({IF b.err # "" THEN b
                   ELSE WriteBuffer_writeInt32(b.w, AndAllOnes(object)) :
                     b \in {WriteBuffer_writeInt32(a.w, ShiftRight(object, 32))}}) :
         a \in {WriteBuffer_writeInt32(w, 8)}})

\* Int64Codec.decode(buf).  The number returned is given by the two words
\* of its 64-bit two's complement, each as the int32 with those bits: lo
\* itself when hi is 0, else (BigInt(hi) << 32) | BigInt(lo), in which a
\* negative lo sets every bit above its own.  exact: the number is below
\* 2^53 in size, so Number() does not round it.
Int64Codec_decode(f) ==
  Only({IF h.err # "" THEN [err |-> h.err, high |-> 0, low |-> 0, exact |-> TRUE]
        ELSE Only({
          IF l.err # "" THEN [err |-> l.err, high |-> 0, low |-> 0, exact |-> TRUE]
          ELSE IF h.num = 0 \/ l.num < 0
          THEN [err |-> "", high |-> IF l.num < 0 THEN 0 - 1 ELSE 0,
                low |-> l.num, exact |-> TRUE]
          ELSE [err |-> "", high |-> h.num, low |-> l.num,
                exact |-> (h.num >= 0 - 2097152 /\ h.num < 2097152)] :
          l \in {ReadBuffer_readInt32(h.frb)}}) :
         h \in {ReadBuffer_readInt32(f)}})

(***************************************************************************)
(* ResolvedConnectConfig (con_utils): each of its seven fields with the    *)
(* label of its source.  A value is a string; a number is its decimal       *)
(* numeral, a boolean "true" or "false"; Null stands for null and          *)
(* Undefined_ for undefined, which no value of the program equals.  A      *)
(* label is the sequence of the strings it is concatenated from; no label  *)
(* is <<>>, which stands for null.                                         *)
(***************************************************************************)
Null == "<null>"
Undefined_ == "<undefined>"
NoSource == <<>>

Params == {"host", "port", "database", "user", "password", "tlsCAData",
           "tlsVerifyHostname"}

\* the fields as declared: value and source null
NewResolvedConnectConfig ==
  [p \in Params |-> [value |-> Null, source |-> NoSource]]

\* the outcome of a setter: the config afterwards, what it returned, the
\* error it threw
SetOut(c, r, e) == [cfg |-> c, ret |-> r, err |-> e]

\* a validator of _setParam applied to a value: the value stored, or an error
Validated(v, e) == [value |-> v, err |-> e]

\* _setParam(param, value, source, validator), with what the validator
\* makes of the value, storing whatever the field holds
setParamOverwrites(c, param, value, source, valid) ==
  IF value # Null
  THEN IF valid.err # ""
       THEN SetOut([c EXCEPT ![param].source = source], FALSE, valid.err)
       ELSE SetOut([c EXCEPT ![param] = [value |-> valid.value,
                                         source |-> source]], TRUE, "")
  ELSE SetOut([c EXCEPT ![param].source = source], FALSE, "")

\* _setParam(param, value, source, validator), with what the validator makes
\* of the value: the label is stored before the validator is called
setParam(c, param, value, source, valid) ==
  IF c[param].value = Null
  THEN IF value # Null
       THEN IF valid.err # ""
            THEN SetOut([c EXCEPT ![param].source = source], FALSE, valid.err)
            ELSE SetOut([c EXCEPT ![param] = [value |-> valid.value,
                                              source |-> source]], TRUE, "")
       ELSE SetOut([c EXCEPT ![param].source = source], FALSE, "")
  ELSE SetOut(c, FALSE, "")

\* the strings of the model that are decimal numerals, and the number each
\* stands for as its canonical numeral (parseInt(port, 10))
Numerals == {"5656", "05656", "10702", "0", "65536"}
ParseInt(s) == IF s = "05656" THEN "5656" ELSE s
\* the canonical numerals of the integers from 1 to 65535
PortNumbers == {"5656", "10702"}

\* parseValidatePort(port)
parseValidatePort(port) ==
  IF port \notin Numerals THEN Validated(Null, "invalid port")
  ELSE IF ParseInt(port) \notin PortNumbers THEN Validated(Null, "invalid port")
  ELSE Validated(ParseInt(port), "")

\* validateHost(host): a host of the model with a slash or a comma
BadHosts == {"/run/sock", "a,b", ""}
validateHost(host) ==
  IF host = "/run/sock" THEN Validated(Null, "unix socket paths not supported")
  ELSE IF host \in BadHosts THEN Validated(Null, "invalid host")
  ELSE Validated(host, "")

\* parseVerifyHostname(s); a boolean is stored as it is
parseVerifyHostname(s) ==
  IF s \in {"true", "t", "yes", "y", "on", "1"} THEN Validated("true", "")
  ELSE IF s \in {"false", "f", "no", "n", "off", "0"} THEN Validated("false", "")
  ELSE Validated(Null, "invalid tls_verify_hostname value")

\* the validators of setDatabase and of setUser
NotEmpty(s, what) ==
  IF s = "" THEN Validated(Null, what) ELSE Validated(s, "")

\* the files of the model and readFileUtf8Sync(path): the text of the file,
\* or the error of a file that does not exist
Files == {"ca.pem", "pw.txt"}
FileText(path) == IF path = "ca.pem" THEN "CERT" ELSE "secret"
readFileUtf8Sync(path) ==
  IF path \in Files THEN Validated(FileText(path), "")
  ELSE Validated(Null, "ENOENT")

\* the setters
setHost(c, host, source) ==
  setParam(c, "host", host, source, validateHost(host))
setPort(c, port, source) ==
  setParam(c, "port", port, source, parseValidatePort(port))
setDatabase(c, database, source) ==
  setParam(c, "database", database, source,
           NotEmpty(database, "invalid database name"))
setUser(c, user, source) ==
  setParam(c, "user", user, source, NotEmpty(user, "invalid user name"))
setPassword(c, password, source) ==
  setParam(c, "password", password, source, Validated(password, ""))
setTlsCAData(c, caData, source) ==
  setParam(c, "tlsCAData", caData, source, Validated(caData, ""))
setTlsCAFile(c, caFile, source) ==
  setParam(c, "tlsCAData", caFile, source, readFileUtf8Sync(caFile))
setTlsVerifyHostname(c, verifyHostname, source) ==
  setParam(c, "tlsVerifyHostname", verifyHostname, source,
           parseVerifyHostname(verifyHostname))

(***************************************************************************)
(* parseDSNIntoConfig (con_utils).  A URL is what new URL(dsn) gives: its  *)
(* protocol, username, password, hostname, port, pathname and the pairs of *)
(* its query in order; ok is false where new URL throws.                   *)
(***************************************************************************)
URL(protocol, username, password, hostname, port, pathname, search) ==
  [ok |-> TRUE, protocol |-> protocol, username |-> username,
   password |-> password, hostname |-> hostname, port |-> port,
   pathname |-> pathname, search |-> search]
NotAURL == [URL("", "", "", "", "", "", <<>>) EXCEPT !.ok = FALSE]

\* the Map searchParams: a function from the keys it has
MapGet(sp, k) == IF k \in DOMAIN sp THEN sp[k] ELSE Undefined_
MapDelete(sp, ks) == [k \in (DOMAIN sp) \ ks |-> sp[k]]
HasDuplicateKey(q) ==
  \E i, j \in 1..Len(q) : i # j /\ q[i][1] = q[j][1]
SearchMap(q) ==
  [k \in {q[i][1] : i \in 1..Len(q)} |->
     q[CHOOSE i \in 1..Len(q) : q[i][1] = k][2]]

\* str.replace(/^\//, "") on the strings of the model
stripLeadingSlash(str) ==
  CASE str = "/" -> ""
    [] str = "/db1" -> "db1"
    [] str = "/db2" -> "db2"
    [] OTHER -> str

\* the seven calls of handleDSNPart: the name of the part, the keys of its
\* query variants, the field whose current value is passed, the setter, and
\* whether the formatter is stripLeadingSlash
DSNPart(name, env, file, field, setter, strip) ==
  [name |-> name, env |-> env, file |-> file, field |-> field,
   setter |-> setter, strip |-> strip]
DSNParts ==
  << DSNPart("host", "host_env", "host_file", "host", "setHost", FALSE),
     DSNPart("port", "port_env", "port_file", "port", "setPort", FALSE),
     DSNPart("database", "database_env", "database_file", "database",
             "setDatabase", TRUE),
     DSNPart("user", "user_env", "user_file", "user", "setUser", FALSE),
     DSNPart("password", "password_env", "password_file", "password",
             "setPassword", FALSE),
     DSNPart("tls_cert_file", "tls_cert_file_env", "tls_cert_file_file",
             "tlsCAData", "setTlsCAFile", FALSE),
     DSNPart("tls_verify_hostname", "tls_verify_hostname_env",
             "tls_verify_hostname_file", "tlsVerifyHostname",
             "setTlsVerifyHostname", FALSE) >>

\* the value handleDSNPart is called with for a part: from the URL
DSNPartValue(url, name) ==
  CASE name = "host" -> url.hostname
    [] name = "port" -> url.port
    [] name = "database" -> stripLeadingSlash(url.pathname)
    [] name = "user" -> url.username
    [] name = "password" -> url.password
    [] OTHER -> Null

\* a setter given by its name
CallSetter(c, setter, value, source) ==
  CASE setter = "setHost" -> setHost(c, value, source)
    [] setter = "setPort" -> setPort(c, value, source)
    [] setter = "setDatabase" -> setDatabase(c, value, source)
    [] setter = "setUser" -> setUser(c, value, source)
    [] setter = "setPassword" -> setPassword(c, value, source)
    [] setter = "setTlsCAData" -> setTlsCAData(c, value, source)
    [] setter = "setTlsCAFile" -> setTlsCAFile(c, value, source)
    [] OTHER -> setTlsVerifyHostname(c, value, source)

\* the state of parseDSNIntoConfig between two calls of handleDSNPart
DSNState(c, sp, e) == [cfg |-> c, sp |-> sp, err |-> e]

\* how many of the variants of a part are given: value || null, and the
\* three keys of the query
VariantsGiven(value, sp, part) ==
  Cardinality({i \in 1..4 :
    \/ i = 1 /\ value \notin {Null, ""}
    \/ i = 2 /\ part.name \in DOMAIN sp
    \/ i = 3 /\ part.env \in DOMAIN sp
    \/ i = 4 /\ part.file \in DOMAIN sp})

\* the param and its source that handleDSNPart hands to the setter, or the
\* error thrown on the way
DSNParam(value, sp, part, source, env) ==
  IF value \notin {Null, ""} THEN [param |-> value, source |-> source, err |-> ""]
  ELSE IF part.name \in DOMAIN sp
  THEN [param |-> sp[part.name], source |-> source, err |-> ""]
  ELSE IF part.env \in DOMAIN sp
  THEN IF MapGet(env, sp[part.env]) = Undefined_
       THEN [param |-> Null, source |-> source,
             err |-> "environment variable doesn't exist"]
       ELSE [param |-> env[sp[part.env]],
             source |-> source \o <<part.env, sp[part.env]>>, err |-> ""]
  ELSE IF part.file \in DOMAIN sp
  THEN [param |-> readFileUtf8Sync(sp[part.file]).value,
        source |-> source \o <<part.file, sp[part.file]>>,
        err |-> readFileUtf8Sync(sp[part.file]).err]
  ELSE [param |-> Null, source |-> source, err |-> ""]

\* handleDSNPart from 'if (currentValue === null)' on: the setter is called
\* with the param formatted, and the three keys are deleted
DSNPartSet(st, value, part, source, env) ==
  IF st.cfg[part.field].value # Null
  THEN DSNState(st.cfg, MapDelete(st.sp, {part.name, part.env, part.file}), "")
  ELSE Only({
    IF p.err # "" THEN DSNState(st.cfg, st.sp, p.err)
    ELSE Only({DSNState(o.cfg,
                        IF o.err # "" THEN st.sp
                        ELSE MapDelete(st.sp, {part.name, part.env, part.file}),
                        o.err) :
           o \in {CallSetter(st.cfg, part.setter,
                             IF p.param # Null /\ part.strip
                             THEN stripLeadingSlash(p.param) ELSE p.param,
                             p.source)}}) :
    p \in {DSNParam(value, st.sp, part, source, env)}})

\* handleDSNPart, counting the variants only of a field that is still null
handleDSNPartUnlessSet(st, value, part, source, env) ==
  IF st.cfg[part.field].value = Null /\ VariantsGiven(value, st.sp, part) > 1
  THEN DSNState(st.cfg, st.sp, "invalid DSN: more than one of")
  ELSE DSNPartSet(st, value, part, source, env)

\* handleDSNPart(paramName, value, currentValue, setter, formatter)
handleDSNPart(st, value, part, source, env) ==
  IF VariantsGiven(value, st.sp, part) > 1
  THEN DSNState(st.cfg, st.sp, "invalid DSN: more than one of")
  ELSE DSNPartSet(st, value, part, source, env)

\* the calls of handleDSNPart from the i-th on
RECURSIVE DSNPartsFrom(_, _, _, _, _)
DSNPartsFrom(st, i, url, source, env) ==
  IF i > Len(DSNParts) \/ st.err # "" THEN st
  ELSE Only({DSNPartsFrom(n, i + 1, url, source, env) :
              n \in {handleDSNPart(st, DSNPartValue(url, DSNParts[i].name),
                                   DSNParts[i], source, env)}})

\* parseDSNIntoConfig(dsnString, config, source) on the URL of dsnString:
\* the config afterwards and the error thrown.  The server settings, which
\* the keys left in the query become, are not modelled.
parseDSNIntoConfig(url, c, source, env) ==
  IF ~url.ok THEN [cfg |-> c, err |-> "invalid DSN or instance name"]
  ELSE IF url.protocol # "edgedb:"
  THEN [cfg |-> c, err |-> "invalid DSN: scheme is expected to be 'edgedb'"]
  ELSE IF HasDuplicateKey(url.search)
  THEN [cfg |-> c, err |-> "invalid DSN: duplicate query parameter"]
  ELSE Only({[cfg |-> st.cfg, err |-> st.err] :
              st \in {DSNPartsFrom(DSNState(c, SearchMap(url.search), ""), 1,
                                   url, source, env)}})

(***************************************************************************)
(* resolveConfigOptions and parseConnectDsnAndArgs (con_utils).  The       *)
(* options of a level are a function from OptionNames to a string or       *)
(* Undefined_; the environment is a function from the names of its         *)
(* variables.                                                              *)
(***************************************************************************)
OptionNames == {"dsn", "instanceName", "credentialsFile", "host", "port",
                "database", "user", "password", "tlsCAFile",
                "tlsVerifyHostname"}
NoOptions == [n \in OptionNames |-> Undefined_]

\* x ?? null
OrNull(x) == IF x = Undefined_ THEN Null ELSE x

\* the DSN strings of the model and what new URL() makes of each
URLOf(dsn) ==
  CASE dsn = "edgedb://u1:pw1@h1:5656/db1" ->
         URL("edgedb:", "u1", "pw1", "h1", "5656", "/db1", <<>>)
    [] dsn = "edgedb://h1" -> URL("edgedb:", "", "", "h1", "", "", <<>>)
    [] dsn = "edgedb://h2" -> URL("edgedb:", "", "", "h2", "", "", <<>>)
    [] dsn = "edgedb://" -> URL("edgedb:", "", "", "", "", "", <<>>)
    [] dsn = "edgedb://u1@h1?user=u2" ->
         URL("edgedb:", "u1", "", "h1", "", "", << <<"user", "u2">> >>)
    [] dsn = "edgedb://h1?user_env=MY_USER" ->
         URL("edgedb:", "", "", "h1", "", "", << <<"user_env", "MY_USER">> >>)
    [] dsn = "http://h1" -> URL("http:", "", "", "h1", "", "", <<>>)
    [] OTHER -> NotAURL
\* /^[a-z]+:\/\//i.test(dsn)
HasScheme(dsn) == URLOf(dsn).ok

\* the instance names of the model that match /^[A-Za-z_][A-Za-z_0-9]*$/
InstanceNames == {"inst1", "inst2"}
\* getCredentialsPath(instanceName)
getCredentialsPath(instanceName) ==
  IF instanceName = "inst1" THEN "credentials/inst1.json"
  ELSE "credentials/inst2.json"
\* readCredentialsFile(file): the credentials files of the model hold a
\* host, a port, a user and a password
Credentials ==
  [host |-> "hc", port |-> "10702", database |-> Undefined_, user |-> "uc",
   password |-> "pwc", tlsCAData |-> Undefined_,
   tlsVerifyHostname |-> Undefined_]
readCredentialsFile(file) ==
  IF file \in {"c.json", "credentials/inst1.json"}
  THEN [creds |-> Credentials, err |-> ""]
  ELSE [creds |-> Credentials, err |-> "cannot read credentials file"]

\* the outcome of resolveConfigOptions
Resolved(c, e, compound, used) ==
  [cfg |-> c, err |-> e, hasCompoundOptions |-> compound,
   anyOptionsUsed |-> used]

\* calls of setters one after the other, from the i-th on, until one throws:
\* anyOptionsUsed becomes true when one returns true
RECURSIVE SettersFrom(_, _, _)
SettersFrom(r, i, calls) ==
  IF i > Len(calls) \/ r.err # "" THEN r
  ELSE Only({SettersFrom(Resolved(o.cfg, o.err, FALSE,
                                  r.anyOptionsUsed \/ o.ret), i + 1, calls) :
              o \in {CallSetter(r.cfg, calls[i][1], calls[i][2], calls[i][3])}})

\* [config.dsn, config.instanceName, config.credentialsFile,
\*  config.host ?? config.port].filter((param) => param !== undefined).length
compoundParamsCount(config) ==
  Cardinality({n \in {"dsn", "instanceName", "credentialsFile"} :
                 config[n] # Undefined_})
  + (IF config["host"] # Undefined_ \/ config["port"] # Undefined_
     THEN 1 ELSE 0)

\* the branch of dsn, host and port
ResolveDsnHostPort(c, config, sources, env) ==
  IF config["dsn"] # Undefined_
  THEN parseDSNIntoConfig(URLOf(config["dsn"]), c, sources["dsn"], env)
  ELSE Only({
    IF p.err # "" THEN [cfg |-> p.cfg, err |-> p.err]
    ELSE IF config["host"] # Undefined_ /\ validateHost(config["host"]).err # ""
    THEN [cfg |-> p.cfg, err |-> validateHost(config["host"]).err]
    ELSE parseDSNIntoConfig(
           URL("edgedb:", "", "",
               IF config["host"] # Undefined_ THEN config["host"] ELSE "",
               "", "", <<>>),
           p.cfg,
           IF config["host"] # Undefined_ THEN sources["host"]
           ELSE sources["port"], env) :
    p \in {IF config["port"] # Undefined_
           THEN setPort(c, config["port"], sources["port"])
           ELSE SetOut(c, FALSE, "")}})

\* the branch of credentialsFile and instanceName
ResolveCredentials(c, config, sources) ==
  IF config["credentialsFile"] = Undefined_
     /\ config["instanceName"] \notin InstanceNames
  THEN [cfg |-> c, err |-> "invalid DSN or instance name"]
  ELSE Only({
    IF f.err # "" THEN [cfg |-> c, err |-> f.err]
    ELSE Only({[cfg |-> r.cfg, err |-> r.err] :
      r \in {SettersFrom(Resolved(c, "", FALSE, FALSE), 1,
        << <<"setHost", OrNull(f.creds.host), f.source>>,
           <<"setPort", OrNull(f.creds.port), f.source>>,
           <<"setDatabase", OrNull(f.creds.database), f.source>>,
           <<"setUser", OrNull(f.creds.user), f.source>>,
           <<"setPassword", OrNull(f.creds.password), f.source>>,
           <<"setTlsCAData", OrNull(f.creds.tlsCAData), f.source>>,
           <<"setTlsVerifyHostname", OrNull(f.creds.tlsVerifyHostname),
             f.source>> >>)}}) :
    f \in {[creds |-> x.creds, err |-> x.err,
            source |-> IF config["credentialsFile"] # Undefined_
                       THEN sources["credentialsFile"]
                       ELSE sources["instanceName"]] :
           x \in {readCredentialsFile(
                    IF config["credentialsFile"] # Undefined_
                    THEN config["credentialsFile"]
                    ELSE getCredentialsPath(config["instanceName"]))}}})

\* resolveConfigOptions from 'const compoundParamsCount' on, r being the
\* outcome of the five scalar setters
ResolveCompound(r, config, sources, env) ==
  IF r.err # "" THEN r
  ELSE IF compoundParamsCount(config) > 1
  THEN Resolved(r.cfg, "Cannot have more than one of the following", FALSE,
                r.anyOptionsUsed)
  ELSE IF compoundParamsCount(config) = 1
  THEN Only({Resolved(o.cfg, o.err, TRUE, TRUE) :
              o \in {IF \E n \in {"dsn", "host", "port"} : config[n] # Undefined_
                     THEN ResolveDsnHostPort(r.cfg, config, sources, env)
                     ELSE ResolveCredentials(r.cfg, config, sources)}})
  ELSE r

\* resolveConfigOptions(resolvedConfig, config, sources, compoundParamsError)
resolveConfigOptions(c, config, sources, env) ==
  Only({ResolveCompound(r, config, sources, env) :
    r \in {SettersFrom(Resolved(c, "", FALSE, FALSE), 1,
      << <<"setDatabase", OrNull(config["database"]), sources["database"]>>,
         <<"setUser", OrNull(config["user"]), sources["user"]>>,
         <<"setPassword", OrNull(config["password"]), sources["password"]>>,
         <<"setTlsCAFile", OrNull(config["tlsCAFile"]), sources["tlsCAFile"]>>,
         <<"setTlsVerifyHostname", OrNull(config["tlsVerifyHostname"]),
           sources["tlsVerifyHostname"]>> >>)}})

\* the variables of the environment: those parseConnectDsnAndArgs reads, and
\* one that a DSN can name
EnvNames == {"EDGEDB_DSN", "EDGEDB_INSTANCE", "EDGEDB_CREDENTIALS_FILE",
             "EDGEDB_HOST", "EDGEDB_PORT", "EDGEDB_DATABASE", "EDGEDB_USER",
             "EDGEDB_PASSWORD", "EDGEDB_TLS_CA_FILE",
             "EDGEDB_TLS_VERIFY_HOSTNAME", "MY_USER"}
NoEnv == [n \in EnvNames |-> Undefined_]

\* the labels of the explicit options and of the environment variables
OptionSources ==
  [n \in OptionNames |->
     CASE n = "dsn" -> <<"'dsnOrInstanceName' option (parsed as dsn)">>
       [] n = "instanceName" ->
            <<"'dsnOrInstanceName' option (parsed as instance name)">>
       [] n = "credentialsFile" -> <<"'credentialsFile' option">>
       [] n = "host" -> <<"'host' option">>
       [] n = "port" -> <<"'port' option">>
       [] n = "database" -> <<"'database' option">>
       [] n = "user" -> <<"'user' option">>
       [] n = "password" -> <<"'password' option">>
       [] n = "tlsCAFile" -> <<"'tlsCAFile' option">>
       [] OTHER -> <<"'tlsVerifyHostname' option">>]
EnvOf(n) ==
  CASE n = "dsn" -> "EDGEDB_DSN"
    [] n = "instanceName" -> "EDGEDB_INSTANCE"
    [] n = "credentialsFile" -> "EDGEDB_CREDENTIALS_FILE"
    [] n = "host" -> "EDGEDB_HOST"
    [] n = "port" -> "EDGEDB_PORT"
    [] n = "database" -> "EDGEDB_DATABASE"
    [] n = "user" -> "EDGEDB_USER"
    [] n = "password" -> "EDGEDB_PASSWORD"
    [] n = "tlsCAFile" -> "EDGEDB_TLS_CA_FILE"
    [] OTHER -> "EDGEDB_TLS_VERIFY_HOSTNAME"
EnvSources ==
  [n \in OptionNames |-> <<"environment variable", EnvOf(n)>>]
\* at the level of the project only instanceName has a label
ProjectSources ==
  [n \in OptionNames |->
     IF n = "instanceName" THEN <<"project linked instance">>
     ELSE <<Undefined_>>]

\* port?.startsWith("tcp://"), on the strings of the model
StartsWithTcp(port) == port = "tcp://10.0.0.1:5656"

\* the outcome of parseConnectDsnAndArgs
Parsed(c, e, fromEnv, fromProject, inProject) ==
  [cfg |-> c, err |-> e, fromEnv |-> fromEnv, fromProject |-> fromProject,
   inProject |-> inProject]

\* the directories from the current one up to the root: whether each holds
\* an edgedb.toml and the device it is on.  findProjectDir(): the index of
\* the directory found, 0 for null
RECURSIVE findProjectDirFrom(_, _)
findProjectDirFrom(dirs, i) ==
  IF dirs[i].toml THEN i
  ELSE IF i = Len(dirs) \/ dirs[i + 1].dev # dirs[1].dev THEN 0
  ELSE findProjectDirFrom(dirs, i + 1)
\* findProjectDir() walking up to the root whatever the devices are
findProjectDirAnyDevice(dirs) ==
  IF \E i \in 1..Len(dirs) : dirs[i].toml
  THEN CHOOSE i \in 1..Len(dirs) :
         dirs[i].toml /\ \A j \in 1..(i - 1) : ~dirs[j].toml
  ELSE 0
findProjectDir(dirs) == findProjectDirFrom(dirs, 1)

\* parseConnectDsnAndArgs from 'if (!hasCompoundOptions)' (the project) on
ResolveProject(r, fromEnv, projectDir, stash) ==
  IF r.err # "" \/ r.hasCompoundOptions
  THEN Parsed(r.cfg, r.err, fromEnv, FALSE, projectDir # 0)
  ELSE IF projectDir = 0
  THEN Parsed(r.cfg, "no 'edgedb.toml' found and no connection options specified",
              fromEnv, FALSE, FALSE)
  ELSE IF stash = Undefined_
  THEN Parsed(r.cfg, "Found 'edgedb.toml' but the project is not initialized",
              fromEnv, FALSE, TRUE)
  ELSE Only({Parsed(o.cfg, o.err, fromEnv, o.err = "", TRUE) :
              o \in {resolveConfigOptions(r.cfg,
                       [NoOptions EXCEPT !["instanceName"] = stash],
                       ProjectSources, NoEnv)}})

\* the options resolveConfigOptions is given for the environment
EnvOptions(c, env) ==
  [n \in OptionNames |->
     IF n = "port" /\ c["port"].value = Null /\ StartsWithTcp(env["EDGEDB_PORT"])
     THEN Undefined_ ELSE env[EnvOf(n)]]

\* parseConnectDsnAndArgs from 'if (!hasCompoundOptions)' (the environment) on
ResolveEnv(r, env, projectDir, stash) ==
  IF r.err # "" \/ r.hasCompoundOptions
  THEN ResolveProject(r, FALSE, projectDir, stash)
  ELSE Only({ResolveProject(e, e.anyOptionsUsed, projectDir, stash) :
              e \in {resolveConfigOptions(r.cfg, EnvOptions(r.cfg, env),
                                          EnvSources, env)}})

\* parseConnectDsnAndArgs(config, projectDir): config.dsn is the dsn when it
\* has a scheme, the instance name otherwise
parseConnectDsnAndArgs(config, projectDir, env, stash) ==
  Only({ResolveEnv(r, env, projectDir, stash) :
    r \in {resolveConfigOptions(NewResolvedConnectConfig,
             [config EXCEPT
                !["dsn"] = IF config["dsn"] # Undefined_ /\ HasScheme(config["dsn"])
                           THEN config["dsn"] ELSE Undefined_,
                !["instanceName"] =
                           IF config["dsn"] # Undefined_ /\ HasScheme(config["dsn"])
                           THEN Undefined_ ELSE config["dsn"]],
             OptionSources, env)}})

\* parseConnectArguments(opts): commandTimeout is a number or undefined
parseConnectArguments(opts, commandTimeout, env, dirs, stash) ==
  IF commandTimeout \notin {Undefined_, Null} /\ commandTimeout \notin {"0", "10"}
  THEN Parsed(NewResolvedConnectConfig, "invalid commandTimeout value",
              FALSE, FALSE, FALSE)
  ELSE parseConnectDsnAndArgs(opts, findProjectDir(dirs), env, stash)

(***************************************************************************)
(* The state.                                                              *)
(***************************************************************************)
VARIABLES
  rb,       \* a ReadMessageBuffer
  frb,      \* the ReadBuffer its caller hands to consumeMessageInto
  ret,      \* the last call on rb: the error thrown, the boolean returned
  plain,    \* the caller has so far only fed rb and taken and consumed messages
  frames,   \* the frames the peer sends, in order: each a tag and a payload
  fed,      \* how many bytes of them have been fed to rb
  nDone,    \* how many messages the caller has finished with on rb
  rbW,      \* a second ReadMessageBuffer, fed the same frames as one chunk
  out,      \* the frames pulled from rb, each a tag and a payload
  outW,     \* the frames pulled from rbW
  wb,       \* a WriteMessageBuffer
  wret,     \* the error its last call threw
  wmsgs,    \* the messages begun and ended in wb since its last reset: where
            \* each starts and the bytes it had when it was ended
  wcut,     \* a reset has come between beginMessage and now
  nWrites,  \* how many writes to wb have succeeded
  nBegun,   \* how many messages have been begun in wb
  plan,     \* SpecRing: how the transport cuts the stream into chunks
  sawFull,  \* SpecRing: the last feed returned true
  pulledAfterFull,  \* SpecRing: a message has been consumed since it did
  conn,     \* an AwaitConnection: paused and its four callbacks (set or null)
  pc,       \* where its caller is
  woke,     \* how the promise of the pending waitForMessage has been settled
  cst,      \* SpecClient: the other fields of the AwaitConnection
  tasks,    \* SpecClient: the calls of connect() and of the fetch methods
  sent,     \* SpecClient: the buffers written to the socket, and by which call
  scen,     \* SpecClient: what the server sends and what the user calls
  owner,    \* SpecClient: the call whose promise messageWaiterResolve settles
  lastSync, \* SpecClient: the status byte parseSyncMessage() read last (-1: none)
  cfg,      \* a ResolvedConnectConfig
  cin,      \* SpecConfig: the options, the environment and the files
  cres,     \* the last call on cfg, or what parseConnectArguments() gave
  cod       \* SpecCodec: a value, what encode wrote and what decode read

readVars == <<rb, frb, ret, plain, frames, fed, nDone>>
splitVars == <<rbW, out, outW>>
writeVars == <<wb, wret, wmsgs, wcut, nWrites, nBegun>>
ringVars == <<plan, sawFull, pulledAfterFull>>
clientVars == <<cst, tasks, sent, scen, owner, lastSync>>
connVars == <<conn, pc, woke, clientVars>>
cfgVars == <<cfg, cin, cres, cod>>
vars == <<readVars, splitVars, writeVars, ringVars, connVars, cfgVars>>

\* what the actions of Spec, of SpecSplit and of SpecWrite leave alone
notRead == <<splitVars, writeVars, ringVars, connVars, cfgVars>>
notSplit == <<writeVars, ringVars, connVars, cfgVars>>
notWrite == <<readVars, splitVars, ringVars, connVars, cfgVars>>
notConfig == <<readVars, splitVars, writeVars, ringVars, connVars>>

(***************************************************************************)
(* The byte stream of the peer.                                            *)
(***************************************************************************)
\* a frame on the wire: the tag, the length (itself and the payload, not the
\* tag) as a big-endian int32, the payload
EncodeFrame(f) == <<f.tag>> \o Int32Bytes(Len(f.payload) + 4) \o f.payload

RECURSIVE EncodeFrames(_)
EncodeFrames(fs) ==
  IF fs = <<>> THEN <<>> ELSE EncodeFrame(Head(fs)) \o EncodeFrames(Tail(fs))

Frame(t, p) == [tag |-> t, payload |-> p]

\* the streams of the model: a string of one byte; a string whose length
\* prefix (2) exceeds the one byte that follows; a message of plain bytes then
\* an empty one; a string whose length prefix is -1, then an empty message
Streams ==
  { << Frame(80, <<0, 0, 0, 1, 7>>) >>,
    << Frame(68, <<0, 0, 0, 2, 9>>) >>,
    << Frame(80, <<5, 6>>), Frame(90, <<>>) >>,
    << Frame(80, <<255, 255, 255, 255>>), Frame(90, <<>>) >> }

\* the tags a caller asks takeMessageType for
Tags == {80, 90}

Stream == EncodeFrames(frames)

\* the offset in the stream at which frame k ends
FrameEnd(k) == Len(EncodeFrames(SubSeq(frames, 1, k)))

(***************************************************************************)
(* Spec: one ReadMessageBuffer, fed the stream in chunks and read through  *)
(* all of its operations in any order.                                     *)
(***************************************************************************)
InitRead ==
  /\ rb = NewReadMessageBuffer
  /\ frb = ReadBufferAlloc
  /\ ret = [err |-> "", bool |-> FALSE]
  /\ plain = TRUE
  /\ frames \in Streams
  /\ fed = 0
  /\ nDone = 0

\* no buffer is being read
NoRead ==
  /\ rb = NewReadMessageBuffer
  /\ frb = ReadBufferAlloc
  /\ ret = [err |-> "", bool |-> FALSE]
  /\ plain = TRUE
  /\ frames = <<>>
  /\ fed = 0
  /\ nDone = 0

\* no second buffer
NoSplit ==
  /\ rbW = NewReadMessageBuffer
  /\ out = <<>>
  /\ outW = <<>>

\* no configuration is being resolved and no codec is in use
NoConfig ==
  /\ cfg = NewResolvedConnectConfig
  /\ cin = <<>>
  /\ cres = <<>>
  /\ cod = <<>>

\* no calls on a connection
NoClient ==
  /\ cst = NewConnectionFields
  /\ tasks = <<>>
  /\ sent = <<>>
  /\ scen = [hs |-> <<>>, resp |-> <<>>, calls |-> <<>>, flood |-> FALSE]
  /\ owner = 0
  /\ lastSync = 0 - 1

\* no connection
NoConn ==
  /\ conn = NewAwaitConnection
  /\ pc = "none"
  /\ woke = Pending
  /\ NoClient

\* a WriteMessageBuffer as constructed
InitWrite ==
  /\ wb = NewWriteMessageBuffer
  /\ wret = ""
  /\ wmsgs = <<>>
  /\ wcut = FALSE
  /\ nWrites = 0
  /\ nBegun = 0

\* the calls of a caller that pulls whole messages and reads none by parts
PlainOps == {"takeMessage", "consumeMessage"}

\* the caller goes on as long as the cursor is within MaxBack of its chunk
InReach == rb.pos0 >= 0 - MaxBack

\* the call op had outcome o; done says whether it finished with a message
Called(op, o, done) ==
  /\ InReach
  /\ rb' = o.rb
  /\ ret' = [err |-> o.err, bool |-> o.bool]
  /\ plain' = (plain /\ op \in PlainOps)
  /\ nDone' = IF done /\ o.err = "" THEN nDone + 1 ELSE nDone
  /\ UNCHANGED <<frb, frames, fed>>
  /\ UNCHANGED notRead

Feed ==
  \E n \in 1..MaxChunk :
    /\ InReach
    /\ fed + n <= Len(Stream)
    /\ RingLength(rb.bufs) < MaxQueued
    /\ LET o == feed(rb, SubSeq(Stream, fed + 1, fed + n))
       IN  /\ rb' = o.rb
           /\ ret' = [err |-> o.err, bool |-> o.bool]
    /\ fed' = fed + n
    /\ UNCHANGED <<frb, plain, frames, nDone>>
    /\ UNCHANGED notRead

TakeMessage == \E o \in takeMessage(rb) : Called("takeMessage", o, FALSE)

TakeMessageType ==
  \E t \in Tags : \E o \in takeMessageType(rb, t) :
    Called("takeMessageType", o, FALSE)

ReadChar == \E o \in readChar(rb) : Called("readChar", o, FALSE)
ReadInt16 == \E o \in readInt16(rb) : Called("readInt16", o, FALSE)
ReadInt32 == \E o \in readInt32(rb) : Called("readInt32", o, FALSE)
ReadUInt16 == \E o \in readUInt16(rb) : Called("readUInt16", o, FALSE)
ReadUInt32 == \E o \in readUInt32(rb) : Called("readUInt32", o, FALSE)
ReadUUID == \E o \in readUUID(rb) : Called("readUUID", o, FALSE)
ReadString == \E o \in readString(rb) : Called("readString", o, FALSE)
ReadLenPrefixedBuffer ==
  \E o \in readLenPrefixedBuffer(rb) : Called("readLenPrefixedBuffer", o, FALSE)

ReadBuffer ==
  \E size \in 0..MaxRead : \E o \in readBuffer(rb, size) :
    Called("readBuffer", o, FALSE)

PutMessage == Called("putMessage", putMessage(rb), FALSE)
DiscardMessage == Called("discardMessage", discardMessage(rb), TRUE)
ConsumeMessage == \E o \in consumeMessage(rb) : Called("consumeMessage", o, TRUE)

ConsumeMessageInto ==
  \E o \in consumeMessageInto(rb, frb) :
    /\ InReach
    /\ rb' = o.rb
    /\ frb' = o.frb
    /\ ret' = [err |-> o.err, bool |-> FALSE]
    /\ plain' = FALSE
    /\ nDone' = IF o.err = "" THEN nDone + 1 ELSE nDone
    /\ UNCHANGED <<frames, fed>>
    /\ UNCHANGED notRead

FinishMessage ==
  Called("finishMessage", finishMessage(rb),
         rb.curMessageType # 0 /\ rb.curMessageReady)

Next ==
  \/ Feed
  \/ TakeMessage
  \/ TakeMessageType
  \/ ReadChar
  \/ ReadInt16
  \/ ReadInt32
  \/ ReadUInt16
  \/ ReadUInt32
  \/ ReadUUID
  \/ ReadString
  \/ ReadLenPrefixedBuffer
  \/ ReadBuffer
  \/ PutMessage
  \/ DiscardMessage
  \/ ConsumeMessage
  \/ ConsumeMessageInto
  \/ FinishMessage

\* the chunks are cut as Feed cuts them
NoRing ==
  /\ plan = "any"
  /\ sawFull = FALSE
  /\ pulledAfterFull = FALSE

Init == InitRead /\ NoSplit /\ InitWrite /\ NoConfig /\ NoRing /\ NoConn

Spec == Init /\ [][Next]_vars

(***************************************************************************)
(* Properties of Spec.                                                     *)
(***************************************************************************)
\* the frame the caller is at, when it has not been through them all
AtFrame == nDone < Len(frames)
CurFrame == frames[nDone + 1]
\* the bytes of the active chunk from pos0 on
ActiveTail(s) ==
  IF s.buf0 = NullBuffer THEN <<>> ELSE SubSeq(s.buf0, s.pos0 + 1, s.len0)
\* the bytes fed and not consumed yet: the last len of them
Unconsumed == SubSeq(Stream, fed - rb.len + 1, fed)

\* C1: for a caller that feeds the frames in any split and takes and consumes
\* messages, consumeMessage on a message that takeMessage reported ready
\* returns the payload of the frame, byte for byte.
C1_ConsumeReturnsPayload ==
  (plain /\ AtFrame /\ rb.curMessageReady) =>
    \A o \in consumeMessage(rb) : o.err = "" /\ o.buf = CurFrame.payload

\* C3: for the same caller, takeMessage returns true exactly when the tag,
\* the length and the whole payload of the frame it is at have been fed,
\* whatever earlier calls returned false on parts of the frame.
C3_TakeMessageIffComplete ==
  (plain /\ AtFrame) =>
    \A o \in takeMessage(rb) :
      o.err = "" /\ (o.bool <=> fed >= FrameEnd(nDone + 1))

\* a read of a fixed size overreads: every outcome throws BufferError and
\* leaves the buffer as it was
Refused(outs) == \A o \in outs : o.err = "BufferError" /\ o.rb = rb
FixedReadsRefuse ==
  /\ rb.curMessageLenUnread < 1 => Refused(readChar(rb))
  /\ rb.curMessageLenUnread < 2 => Refused(readInt16(rb)) /\ Refused(readUInt16(rb))
  /\ rb.curMessageLenUnread < 4 => Refused(readInt32(rb)) /\ Refused(readUInt32(rb))
  /\ rb.curMessageLenUnread < 16 => Refused(readUUID(rb))
  /\ \A size \in 0..MaxRead :
       rb.curMessageLenUnread < size => Refused(readBuffer(rb, size))

\* C6 as claimed: every typed read called with fewer unread bytes in the
\* message than it needs throws BufferError and leaves pos0, len, the unread
\* count and the active chunk as they were; readString and
\* readLenPrefixedBuffer need the four bytes of the length and the bytes it
\* announces.
C6_OverreadLeavesCursors ==
  rb.curMessageReady =>
    /\ FixedReadsRefuse
    /\ rb.curMessageLenUnread < 4 =>
         Refused(readString(rb)) /\ Refused(readLenPrefixedBuffer(rb))
    /\ \A l \in readInt32(rb) :
         (l.err = "" /\ l.num >= 0 /\ rb.curMessageLenUnread < 4 + l.num) =>
           /\ Refused(readBuffer(l.rb, l.num))
           /\ Refused(readString(rb))
           /\ Refused(readLenPrefixedBuffer(rb))

\* C6 amended: the reads of a fixed size and readBuffer do so; readString and
\* readLenPrefixedBuffer do so when the message has fewer than four bytes
\* left, and when the length they read announces more bytes than are left
\* they throw BufferError having consumed the four bytes of the length and
\* nothing else.
C6_OverreadLeavesCursorsButPrefix ==
  rb.curMessageReady =>
    /\ FixedReadsRefuse
    /\ rb.curMessageLenUnread < 4 =>
         Refused(readString(rb)) /\ Refused(readLenPrefixedBuffer(rb))
    /\ \A l \in readInt32(rb) :
         (l.err = "" /\ l.num >= 0 /\ rb.curMessageLenUnread < 4 + l.num) =>
           /\ \A o \in readBuffer(l.rb, l.num) :
                o.err = "BufferError" /\ o.rb = l.rb
           /\ l.rb.curMessageLenUnread = rb.curMessageLenUnread - 4
           /\ l.rb.len = rb.len - 4

\* a string of the ready message announces two bytes where one is left:
\* readString throws, and the four bytes of the length are consumed
C6_Witness ==
  /\ rb.curMessageReady
  /\ rb.curMessageLenUnread = 5
  /\ \E o \in readString(rb) :
       /\ o.err = "BufferError"
       /\ o.rb.curMessageLenUnread = 1
       /\ o.rb.len = rb.len - 4

\* C7: whenever the current message is ready, its unread count is at most
\* the unread length of the buffer.
C7_ReadyUnreadWithinLen ==
  rb.curMessageReady => rb.curMessageLenUnread <= rb.len

\* a ready message, partly read, with exactly its unread bytes in the buffer
C7_Witness ==
  /\ rb.curMessageReady
  /\ rb.curMessageLenUnread > 0
  /\ rb.curMessageLenUnread < rb.curMessageLen - 4
  /\ rb.curMessageLenUnread = rb.len

\* C8: len is the unread rest of the active chunk plus the lengths of the
\* queued chunks, and the active chunk from pos0 on followed by the queued
\* chunks is the sequence of the fed bytes not consumed yet.
C8_LenAndBytes ==
  /\ rb.len = (rb.len0 - rb.pos0) + SumLen(rb.bufs)
  /\ rb.pos0 >= 0 /\ rb.pos0 <= rb.len0
  /\ rb.len <= fed
  /\ ActiveTail(rb) \o Concat(rb.bufs) = Unconsumed

(***************************************************************************)
(* SpecSplit: the same frames fed to rb in chunks and to rbW as one chunk, *)
(* each pulled by takeMessage, getMessageType and consumeMessage.          *)
(***************************************************************************)
InitSplit == InitRead /\ NoSplit /\ InitWrite /\ NoConfig /\ NoRing /\ NoConn

\* rb is fed the next chunk
SplitFeed ==
  \E n \in 1..MaxChunk :
    /\ fed + n <= Len(Stream)
    /\ RingLength(rb.bufs) < MaxQueued
    /\ rb' = feed(rb, SubSeq(Stream, fed + 1, fed + n)).rb
    /\ fed' = fed + n
    /\ UNCHANGED <<frb, ret, plain, frames, nDone, splitVars, notSplit>>

\* rbW is fed the whole stream
WholeFeed ==
  /\ rbW.buf0 = NullBuffer
  /\ rbW' = feed(rbW, Stream).rb
  /\ UNCHANGED <<readVars, out, outW, notSplit>>

\* takeMessage on rb
SplitTake ==
  \E o \in takeMessage(rb) :
    /\ ~rb.curMessageReady
    /\ rb' = o.rb
    /\ ret' = [err |-> o.err, bool |-> o.bool]
    /\ UNCHANGED <<frb, plain, frames, fed, nDone, splitVars, notSplit>>

\* takeMessage on rbW
WholeTake ==
  \E o \in takeMessage(rbW) :
    /\ ~rbW.curMessageReady
    /\ o.rb # rbW
    /\ rbW' = o.rb
    /\ UNCHANGED <<readVars, out, outW, notSplit>>

\* the ready message of rb is pulled: its type, then its payload
SplitConsume ==
  \E o \in consumeMessage(rb) :
    /\ rb.curMessageReady
    /\ o.err = ""
    /\ rb' = o.rb
    /\ out' = Append(out, Frame(getMessageType(rb), o.buf))
    /\ ret' = [err |-> o.err, bool |-> FALSE]
    /\ nDone' = nDone + 1
    /\ UNCHANGED <<frb, plain, frames, fed, rbW, outW, notSplit>>

\* the ready message of rbW is pulled
WholeConsume ==
  \E o \in consumeMessage(rbW) :
    /\ rbW.curMessageReady
    /\ o.err = ""
    /\ rbW' = o.rb
    /\ outW' = Append(outW, Frame(getMessageType(rbW), o.buf))
    /\ UNCHANGED <<readVars, out, notSplit>>

NextSplit ==
  \/ SplitFeed
  \/ WholeFeed
  \/ SplitTake
  \/ WholeTake
  \/ SplitConsume
  \/ WholeConsume

SpecSplit == InitSplit /\ [][NextSplit]_vars

\* C2: the frames pulled from the buffer fed in chunks and from the buffer
\* fed the whole stream are the same, one by one: same tag, same payload.
\* nothing more can be pulled from the buffer s
Drained(s) == \A o \in takeMessage(s) : o.err = "" /\ ~o.bool
C2_SplitYieldsSameFrames ==
  /\ \A i \in 1..Min(Len(out), Len(outW)) : out[i] = outW[i]
  /\ (fed = Len(Stream) /\ rbW.buf0 # NullBuffer /\ Drained(rb) /\ Drained(rbW))
       => out = outW

(***************************************************************************)
(* SpecWrite: one WriteMessageBuffer, written through all its operations   *)
(* in any order.                                                           *)
(***************************************************************************)
\* the arguments of the calls: a tag; a char; two strings (as UTF-8); an
\* int16 in range and one out of range; a negative int32; the largest
\* uint16; a uint32; a buffer of one byte, and one that fills the first
\* allocation up to its last byte when written first in the first message
MessageTypes == {80}
Chars == {65}
Strings == {<<>>, <<97, 98>>}
Int16s == {0 - 2, 40000}
Int32s == {0 - 1}
UInt16s == {65535}
UInt32s == {258}
BigBuffer == [i \in 1..(BUFFER_INC_SIZE - 6) |-> 0]
Buffers == {<<1>>, BigBuffer}

InitW == InitRead /\ NoSplit /\ InitWrite /\ NoConfig /\ NoRing /\ NoConn

\* the bytes [start, end) of the buffer of m
WBytes(m, start, end) == WRange(m.buffer.buffer, start, end)

\* a call that writes had outcome o
Wrote(o) ==
  /\ wb' = o.wb
  /\ wret' = o.err
  /\ nWrites' = IF o.err = "" THEN nWrites + 1 ELSE nWrites
  /\ o.err = "" => nWrites < MaxWrites
  /\ UNCHANGED <<wmsgs, wcut, nBegun, notWrite>>

WReset ==
  /\ wb' = reset(wb)
  /\ wret' = ""
  /\ wmsgs' = <<>>
  /\ wcut' = (wb.messagePos >= 0)
  /\ UNCHANGED <<nWrites, nBegun, notWrite>>

WBeginMessage ==
  \E mtype \in MessageTypes :
    LET o == beginMessage(wb, mtype)
    IN  /\ o.err = "" => nBegun < MaxMessages
        /\ wb' = o.wb
        /\ wret' = o.err
        /\ nBegun' = IF o.err = "" THEN nBegun + 1 ELSE nBegun
        /\ wcut' = IF o.err = "" THEN FALSE ELSE wcut
        /\ UNCHANGED <<wmsgs, nWrites, notWrite>>

WEndMessage ==
  LET o == endMessage(wb)
  IN  /\ wb' = o.wb
      /\ wret' = o.err
      /\ wmsgs' = IF o.err = "" /\ ~wcut
                  THEN Append(wmsgs,
                              [start |-> wb.messagePos,
                               bytes |-> WBytes(o.wb, wb.messagePos,
                                                wb.buffer.pos)])
                  ELSE wmsgs
      /\ wcut' = IF o.err = "" THEN FALSE ELSE wcut
      /\ UNCHANGED <<nWrites, nBegun, notWrite>>

WWriteChar == \E ch \in Chars : Wrote(writeChar(wb, ch))
WWriteString == \E s \in Strings : Wrote(writeString(wb, s))
WWriteInt16 == \E i \in Int16s : Wrote(writeInt16(wb, i))
WWriteInt32 == \E i \in Int32s : Wrote(writeInt32(wb, i))
WWriteUInt16 == \E i \in UInt16s : Wrote(writeUInt16(wb, i))
WWriteUInt32 == \E i \in UInt32s : Wrote(writeUInt32(wb, i))
WWriteBuffer ==
  \E buf \in Buffers :
    /\ buf = BigBuffer => wb.buffer.pos = 5 /\ nBegun = 1
    /\ Wrote(writeBuffer(wb, buf))
WWriteSync == Wrote(writeSync(wb))
WWriteFlush == Wrote(writeFlush(wb))

WUnwrap ==
  /\ wb' = unwrap(wb).wb
  /\ wret' = unwrap(wb).err
  /\ UNCHANGED <<wmsgs, wcut, nWrites, nBegun, notWrite>>

NextWrite ==
  \/ WReset
  \/ WBeginMessage
  \/ WEndMessage
  \/ WWriteChar
  \/ WWriteString
  \/ WWriteInt16
  \/ WWriteInt32
  \/ WWriteUInt16
  \/ WWriteUInt32
  \/ WWriteBuffer
  \/ WWriteSync
  \/ WWriteFlush
  \/ WUnwrap

SpecWrite == InitW /\ [][NextWrite]_vars

\* C4: of every message begun and ended (with typed writes in between, and
\* no reset), the first byte is the tag and the four bytes after it hold,
\* big-endian, the number of bytes of the message less one; and the bytes of
\* the message in the buffer stay what they were when it was ended, whatever
\* is written and whichever message is ended after it.
C4_LengthField ==
  \A k \in 1..Len(wmsgs) :
    LET m == wmsgs[k]
    IN  /\ m.bytes[1] \in MessageTypes
        /\ ReadInt32BE(m.bytes, 1).num = Len(m.bytes) - 1
        /\ WBytes(wb, m.start, m.start + Len(m.bytes)) = m.bytes

\* two messages have been ended one after the other, one of them with a
\* payload, and the buffer has been reallocated since the first
C4_Witness ==
  /\ Len(wmsgs) = 2
  /\ Len(wmsgs[1].bytes) > 5
  /\ wmsgs[2].start = Len(wmsgs[1].bytes)
  /\ wb.buffer.buffer.length > BUFFER_INC_SIZE

\* the call threw BufferError and left the buffer as it was
WRefused(o) == o.err = "BufferError" /\ o.wb = wb

\* C5: while a message is open beginMessage, writeSync, writeFlush and
\* unwrap throw BufferError, while none is open the typed writes and
\* endMessage do, and the call that throws leaves the position, the bytes and
\* the mark of the open message as they were.
C5_OpenClosedDiscipline ==
  /\ wb.messagePos >= 0 =>
       /\ \A mtype \in MessageTypes : WRefused(beginMessage(wb, mtype))
       /\ WRefused(writeSync(wb))
       /\ WRefused(writeFlush(wb))
       /\ WRefused(unwrap(wb))
  /\ wb.messagePos < 0 =>
       /\ WRefused(endMessage(wb))
       /\ \A ch \in Chars : WRefused(writeChar(wb, ch))
       /\ \A s \in Strings : WRefused(writeString(wb, s))
       /\ \A i \in Int16s : WRefused(writeInt16(wb, i))
       /\ \A i \in Int32s : WRefused(writeInt32(wb, i))
       /\ \A i \in UInt16s : WRefused(writeUInt16(wb, i))
       /\ \A i \in UInt32s : WRefused(writeUInt32(wb, i))
       /\ \A buf \in Buffers : WRefused(writeBuffer(wb, buf))

\* a call has just been refused on a message that is open and has a payload
C5_Witness ==
  /\ wret = "BufferError"
  /\ wb.messagePos >= 0
  /\ wb.buffer.pos > wb.messagePos + 5
  /\ ~wcut

(***************************************************************************)
(* SpecRing: one ReadMessageBuffer fed an endless stream of empty messages *)
(* until its ring of BUFFER_RING_CAPACITY chunks is full and beyond; its   *)
(* caller starts to pull messages once feed has returned true.             *)
(***************************************************************************)
\* the message repeated in the stream: tag 'Z', length 4, no payload
RingFrame == Frame(90, <<>>)

\* the ways the transport cuts the stream: every byte a chunk; two whole
\* messages and the tag of the third in the first chunk, then every byte a
\* chunk; the tag and the length of each message a chunk each
Plans == {"bytes", "whole", "halves"}

\* the length of the chunk that follows the fed bytes
ChunkLen ==
  CASE plan = "bytes" -> 1
    [] plan = "whole" -> IF fed = 0 THEN 2 * Len(EncodeFrame(RingFrame)) + 1 ELSE 1
    [] OTHER -> IF fed % Len(EncodeFrame(RingFrame)) = 0 THEN 1 ELSE 4

\* the chunk that follows them
NextChunk ==
  LET e == EncodeFrame(RingFrame)
  IN  [k \in 1..ChunkLen |-> e[((fed + k - 1) % Len(e)) + 1]]

InitRing ==
  /\ rb = NewReadMessageBuffer
  /\ frb = ReadBufferAlloc
  /\ ret = [err |-> "", bool |-> FALSE]
  /\ plain = TRUE
  /\ frames = <<RingFrame>>
  /\ fed = 0
  /\ nDone = 0
  /\ plan \in Plans
  /\ sawFull = FALSE
  /\ pulledAfterFull = FALSE
  /\ NoSplit /\ InitWrite /\ NoConfig /\ NoConn

\* the transport delivers the next chunk
RingFeed ==
  LET o == feed(rb, NextChunk)
  IN  /\ rb' = o.rb
      /\ ret' = [err |-> o.err, bool |-> o.bool]
      /\ fed' = IF o.err = "" THEN fed + ChunkLen ELSE fed
      /\ sawFull' = (o.err = "" /\ o.bool)
      /\ pulledAfterFull' = FALSE
      /\ UNCHANGED <<frb, plain, frames, nDone, plan, splitVars, writeVars,
                     connVars, cfgVars>>

\* the caller pulls: takeMessage
RingTake ==
  \E o \in takeMessage(rb) :
    /\ sawFull \/ nDone > 0
    /\ nDone < MaxPulled
    /\ ~rb.curMessageReady
    /\ rb' = o.rb
    /\ ret' = [err |-> o.err, bool |-> o.bool]
    /\ UNCHANGED <<frb, plain, frames, fed, nDone, ringVars, splitVars,
                   writeVars, connVars, cfgVars>>

\* the caller consumes the message that is ready
RingConsume ==
  \E o \in consumeMessage(rb) :
    /\ rb.curMessageReady
    /\ rb' = o.rb
    /\ ret' = [err |-> o.err, bool |-> FALSE]
    /\ nDone' = IF o.err = "" THEN nDone + 1 ELSE nDone
    /\ pulledAfterFull' = (pulledAfterFull \/ (sawFull /\ o.err = ""))
    /\ UNCHANGED <<frb, plain, frames, fed, plan, sawFull, splitVars,
                   writeVars, connVars, cfgVars>>

NextRing ==
  \/ RingFeed
  \/ RingTake
  \/ RingConsume

SpecRing == InitRing /\ [][NextRing]_vars

\* the slots of the ring that are free
RingFree == BUFFER_RING_CAPACITY - RingLength(rb.bufs)

\* feed returns true exactly when the ring is full once the chunk is in
FeedReportsFull ==
  LET o == feed(rb, NextChunk)
  IN  o.err = "" => (o.bool <=> RingFull(o.rb.bufs, BUFFER_RING_CAPACITY))

InitConn ==
  /\ InitRead
  /\ conn = NewAwaitConnection
  /\ pc = "connecting"
  /\ woke = Pending
  /\ NoClient
  /\ NoSplit /\ InitWrite /\ NoConfig /\ NoRing

notConn == <<frb, ret, plain, frames, splitVars, writeVars, ringVars, clientVars,
             cfgVars>>

\* the frame the caller is at has been fed whole once nfed bytes are fed
Complete(nfed) == AtFrame /\ nfed >= FrameEnd(nDone + 1)

\* the socket emits 'connect'
OnConnect ==
  /\ conn.sock = "connecting"
  /\ conn' = [onConnect(conn) EXCEPT !.sock = "open"]
  /\ UNCHANGED <<rb, fed, nDone, pc, woke, notConn>>

\* the socket emits 'error'
OnError ==
  /\ conn.sock # "error"
  /\ conn' = [onErrorMessage(onErrorConn(conn)) EXCEPT !.sock = "error"]
  /\ woke' = IF onErrorConn(conn).messageWaiterReject
             THEN [n |-> woke.n + 1, how |-> "reject", by |-> "onError",
                   complete |-> Complete(fed)]
             ELSE woke
  /\ UNCHANGED <<rb, fed, nDone, pc, notConn>>

\* the socket emits 'data' with the next chunk
OnData ==
  \E n \in 1..MaxChunk :
    /\ conn.sock = "open"
    /\ fed + n <= Len(Stream)
    /\ RingLength(rb.bufs) < MaxQueued
    /\ fed' = fed + n
    /\ LET f == feed(rb, SubSeq(Stream, fed + 1, fed + n))
           c == onDataPause(conn, f.bool)
       IN  IF f.err # ""
           THEN rb' = f.rb /\ UNCHANGED <<conn, woke>>
           ELSE IF ~c.messageWaiterResolve
           THEN rb' = f.rb /\ conn' = c /\ UNCHANGED woke
           ELSE \E o \in takeMessage(f.rb) :
                  /\ rb' = o.rb
                  /\ IF o.err = "" /\ o.bool
                     THEN /\ conn' = onDataResolve(c)
                          /\ woke' = [n |-> woke.n + 1, how |-> "resolve",
                                      by |-> "onData",
                                      complete |-> Complete(fed + n)]
                     ELSE conn' = c /\ UNCHANGED woke
    /\ UNCHANGED <<nDone, pc, notConn>>

\* the caller, awaiting connWaiter, goes on when it is settled
Connected ==
  /\ pc = "connecting"
  /\ conn.connWaiter # "pending"
  /\ pc' = IF conn.connWaiter = "resolved" THEN "idle" ELSE "failed"
  /\ UNCHANGED <<rb, fed, nDone, conn, woke, notConn>>

\* the caller calls waitForMessage()
WaitForMessage ==
  \E o \in takeMessage(rb) :
    /\ pc = "idle"
    /\ rb' = o.rb
    /\ IF o.err # "" THEN pc' = "failed" /\ UNCHANGED <<conn, woke>>
       ELSE IF o.bool THEN pc' = "resumed" /\ UNCHANGED <<conn, woke>>
       ELSE /\ pc' = "suspended"
            /\ conn' = waitForMessageSuspend(conn)
            /\ woke' = Pending
    /\ UNCHANGED <<fed, nDone, notConn>>

\* the caller, suspended in waitForMessage, goes on when its promise is settled
Resume ==
  /\ pc = "suspended"
  /\ woke.n > 0
  /\ pc' = IF woke.how = "resolve" THEN "resumed" ELSE "failed"
  /\ UNCHANGED <<rb, fed, nDone, conn, woke, notConn>>

\* the caller consumes the message it waited for
Process ==
  \E o \in consumeMessage(rb) :
    /\ pc = "resumed"
    /\ rb' = o.rb
    /\ pc' = IF o.err = "" THEN "idle" ELSE "failed"
    /\ nDone' = IF o.err = "" THEN nDone + 1 ELSE nDone
    /\ UNCHANGED <<fed, conn, woke, notConn>>

NextConn ==
  \/ OnConnect
  \/ OnError
  \/ OnData
  \/ Connected
  \/ WaitForMessage
  \/ Resume
  \/ Process

SpecConn == InitConn /\ [][NextConn]_vars

\* C10: the promise of a suspended waitForMessage is settled at most once;
\* it is resolved only by onData, with the frame the caller waits for fed
\* whole, and rejected only by onError; until then the caller stays
\* suspended with its callbacks in place.
C10_WokenOnce ==
  /\ woke.n <= 1
  /\ woke.n = 1 =>
       \/ woke.how = "resolve" /\ woke.by = "onData" /\ woke.complete
       \/ woke.how = "reject" /\ woke.by = "onError"
  /\ (pc = "suspended" /\ woke.n = 0) =>
       conn.messageWaiterResolve /\ conn.messageWaiterReject
  /\ (pc = "suspended" /\ woke.n = 1) =>
       ~conn.messageWaiterResolve /\ ~conn.messageWaiterReject

(***************************************************************************)
(* SpecClient: an AwaitConnection from its construction on.  The socket    *)
(* connects or fails; the server answers each buffer the client writes     *)
(* with the frames of the scenario, which arrive in chunks; the user calls *)
(* the fetch methods of the scenario once connect() has resolved, the      *)
(* second possibly while the first is suspended.  A handler or a call runs *)
(* until it returns or suspends before anything else happens.              *)
(***************************************************************************)
\* the most commands the user calls
MaxCommands == 2
\* the longest first chunk of an answer that is not the whole answer
MaxFirst == 12

\* the frames of the server
Str(b) == Int32Bytes(Len(b)) \o b
NewTypeId == [i \in 1..16 |-> 3]
RowA == <<10>>
RowB == <<11>>
FServerHandshake(hi, lo) ==
  Frame(chr_v, Int16Bytes(hi) \o Int16Bytes(lo) \o Int16Bytes(0))
FAuthentication(status) == Frame(chr_R, Int32Bytes(status))
FServerKeyData == Frame(chr_K, Int32Bytes(7))
FReady(status) == Frame(chr_Z, Int16Bytes(0) \o <<status>>)
FError == Frame(chr_E, <<120>> \o Int32Bytes(5) \o Str(<<33>>) \o Int16Bytes(0))
FLog == Frame(chr_L, <<20>> \o Int32Bytes(6) \o Str(<<34>>) \o Int16Bytes(0))
FStatus == Frame(chr_S, Str(<<35>>) \o Str(<<36>>))
FEmptyStatus == Frame(chr_S, Str(<<>>) \o Str(<<>>))
FY == Frame(chr_Y, <<9, 9>>)
FUnknown == Frame(88, <<>>)
FPrepareComplete(tid) ==
  Frame(chr_1, Int16Bytes(0) \o <<chr_m>> \o tid \o tid)
FDescription(tid) ==
  Frame(chr_T, Int16Bytes(0) \o <<chr_m>> \o tid \o Str(<<4>> \o tid)
                 \o tid \o Str(<<4>> \o tid))
FPrepareCompleteIO(iid, oid) ==
  Frame(chr_1, Int16Bytes(0) \o <<chr_m>> \o iid \o oid)
FDescriptionIO(iid, oid) ==
  Frame(chr_T, Int16Bytes(0) \o <<chr_m>> \o iid \o Str(<<4>> \o iid)
                 \o oid \o Str(<<4>> \o oid))
FData(row) == Frame(chr_D, Int16Bytes(1) \o Int32Bytes(Len(row)) \o row)
FCommandComplete == Frame(chr_C, Int16Bytes(0) \o Str(<<37>>))

HsOk == <<FServerHandshake(1, 0), FAuthentication(0), FServerKeyData,
          FReady(chr_I)>>
Prepared == <<FPrepareComplete(KnownTypeId), FReady(chr_I)>>

Scenario(hs, resp, calls) ==
  [hs |-> hs, resp |-> resp, calls |-> calls, flood |-> FALSE,
   overlap |-> FALSE]

\* the scenarios: two queries answered with rows, the second called when the
\* first has returned; the same with the second called at any time after
\* the first (overlap), the answers coming whole; fetchOne answered with no
\* row and with two; an error to Parse, then a query with a ParameterStatus
\* between its rows; unknown type ids, described, then an error to Execute;
\* an error to DescribeStatement; a known input type with an unknown output
\* type, described; a frame of an unknown tag; a handshake
\* with every frame connect() handles; the three handshakes it must refuse;
\* unsolicited ParameterStatus frames, one more than the ring holds, after
\* the handshake
Scenarios ==
  { Scenario(HsOk,
             << Prepared,
                <<FData(RowA), FData(RowB), FCommandComplete, FReady(chr_I)>>,
                Prepared,
                <<FData(RowA), FCommandComplete, FReady(chr_I)>> >>,
             <<"fetchAll", "fetchOne">>),
    [Scenario(HsOk,
              << Prepared,
                 <<FData(RowA), FCommandComplete, FReady(chr_I)>>,
                 Prepared,
                 <<FData(RowB), FCommandComplete, FReady(chr_I)>> >>,
              <<"fetchAll", "fetchAllJSON">>)
     EXCEPT !.overlap = TRUE],
    Scenario(HsOk,
             << Prepared, <<FCommandComplete, FReady(chr_I)>>,
                Prepared,
                <<FData(RowA), FData(RowB), FCommandComplete, FReady(chr_I)>> >>,
             <<"fetchOne", "fetchOne">>),
    Scenario(HsOk,
             << <<FError, FReady(chr_E)>>,
                <<FPrepareComplete(KnownTypeId), FReady(chr_T)>>,
                <<FData(RowA), FStatus, FData(RowB), FCommandComplete,
                  FReady(chr_T)>> >>,
             <<"fetchAll", "fetchAll">>),
    Scenario(HsOk,
             << <<FPrepareComplete(NewTypeId), FReady(chr_I)>>,
                <<FDescription(NewTypeId), FReady(chr_I)>>,
                <<FError, FReady(chr_I)>>,
                <<FPrepareComplete(NewTypeId), FReady(chr_I)>>,
                <<FData(RowA), FCommandComplete, FReady(chr_I)>> >>,
             <<"fetchAllJSON", "fetchOneJSON">>),
    Scenario(HsOk,
             << <<FPrepareComplete(NewTypeId), FReady(chr_I)>>,
                <<FLog, FError, FReady(chr_I)>>,
                Prepared,
                <<FData(RowA), FCommandComplete, FReady(chr_I)>> >>,
             <<"fetchOne", "fetchAll">>),
    Scenario(HsOk,
             << <<FPrepareCompleteIO(KnownTypeId, NewTypeId), FReady(chr_I)>>,
                <<FDescriptionIO(KnownTypeId, NewTypeId), FReady(chr_I)>>,
                <<FData(RowA), FCommandComplete, FReady(chr_I)>> >>,
             <<"fetchAll">>),
    Scenario(HsOk,
             << <<FUnknown, FReady(chr_I)>>,
                Prepared,
                <<FData(RowA), FCommandComplete, FReady(chr_I)>> >>,
             <<"fetchOneJSON", "fetchAll">>),
    Scenario(<<FServerHandshake(1, 0), FY, FStatus, FLog, FAuthentication(0),
               FServerKeyData, FReady(120)>>, <<>>, <<>>),
    Scenario(<<FServerHandshake(2, 0), FAuthentication(0), FReady(chr_I)>>,
             <<>>, <<>>),
    Scenario(<<FAuthentication(10), FReady(chr_I)>>, <<>>, <<>>),
    Scenario(<<FError, FReady(chr_I)>>, <<>>, <<>>),
    [Scenario(HsOk,
              << Prepared, <<FData(RowA), FCommandComplete, FReady(chr_I)>> >>,
              <<"fetchAll">>)
     EXCEPT !.flood = TRUE] }

\* the unsolicited frames: BUFFER_RING_CAPACITY + 1 empty ParameterStatus
FloodFrame == EncodeFrame(FEmptyStatus)
RECURSIVE Repeated(_, _)
Repeated(bytes, n) ==
  IF n = 0 THEN <<>>
  ELSE IF n % 2 = 1 THEN Repeated(bytes, n - 1) \o bytes
  ELSE Repeated(bytes \o bytes, n \div 2)
FloodBytes == Repeated(FloodFrame, BUFFER_RING_CAPACITY + 1)

\* what the server has sent: the answer to the handshake, the unsolicited
\* frames, the answers to the buffers written since
RECURSIVE Answers(_)
Answers(n) ==
  IF n = 0 THEN <<>>
  ELSE Answers(n - 1) \o (IF n <= Len(scen.resp)
                           THEN EncodeFrames(scen.resp[n]) ELSE <<>>)
HsEnd == Len(EncodeFrames(scen.hs))
FloodEnd == HsEnd + (IF scen.flood THEN Len(FloodBytes) ELSE 0)
Wire ==
  IF sent = <<>> THEN <<>>
  ELSE EncodeFrames(scen.hs) \o (IF scen.flood THEN FloodBytes ELSE <<>>)
         \o Answers(Len(sent) - 1)

\* the offsets of the wire at which the answer to a written buffer starts
AnswerStarts ==
  {0} \cup {FloodEnd + Len(Answers(j)) : j \in 0..Max(Len(sent) - 2, 0)}

\* the lengths the next chunk may have.  The unsolicited frames come as the
\* first tag, then chunks that each end with the tag of the next frame; in
\* that scenario, and in the one of overlapping calls, everything else comes
\* whole.  Otherwise a chunk is what
\* the server has sent so far, or, at the start of an answer, its first
\* MaxFirst bytes at most.
ChunkSizes ==
  LET avail == Len(Wire) - fed
  IN  IF avail <= 0 THEN {}
      ELSE IF scen.flood
      THEN IF fed < HsEnd THEN {HsEnd - fed}
           ELSE IF fed = HsEnd THEN {1}
           ELSE IF fed < FloodEnd - Len(FloodFrame)
                THEN {Len(FloodFrame)}
           ELSE {avail}
      ELSE IF scen.overlap THEN {avail}
      ELSE {avail} \cup {n \in 1..MaxFirst : n < avail /\ fed \in AnswerStarts}

InitClient ==
  /\ rb = NewReadMessageBuffer
  /\ frb = ReadBufferAlloc
  /\ ret = [err |-> "", bool |-> FALSE]
  /\ plain = TRUE
  /\ frames = <<>>
  /\ fed = 0
  /\ nDone = 0
  /\ conn = NewAwaitConnection
  /\ pc = "none"
  /\ woke = Pending
  /\ cst = NewConnectionFields
  /\ tasks = << [NewTask("connect", "connWaiter") EXCEPT !.status = "wait"] >>
  /\ sent = <<>>
  /\ scen \in Scenarios
  /\ owner = 0
  /\ lastSync = 0 - 1
  /\ NoSplit /\ InitWrite /\ NoConfig /\ NoRing

notClient == <<frb, ret, plain, frames, nDone, pc, woke, scen, splitVars,
               writeVars, ringVars, cfgVars>>

Loops == {"connect", "parse", "describe", "execute"}
Fetches == {"fetchAll", "fetchOne", "fetchAllJSON", "fetchOneJSON"}

\* call i has something to run now
Runnable(i) ==
  \/ tasks[i].phase = "connWaiter" /\ conn.connWaiter # "pending"
  \/ tasks[i].phase \in Loops /\ tasks[i].status # "wait"
  \/ tasks[i].phase \in {"parsed", "described", "executed"}
\* no call has: the event loop takes the next event
Quiet == \A i \in 1..Len(tasks) : ~Runnable(i)

\* a call that has thrown e, and one that has returned v: its locals are gone
Failed(k, e) == [NewTask(k.fn, "failed") EXCEPT !.thrown = e]
Done(k, v) == [NewTask(k.fn, "done") EXCEPT !.value = v]

\* the socket emits 'connect'
SockConnect ==
  /\ Quiet
  /\ conn.sock = "connecting"
  /\ conn' = [onConnect(conn) EXCEPT !.sock = "open"]
  /\ UNCHANGED <<rb, fed, cst, tasks, sent, owner, lastSync, notClient>>

\* the socket emits 'error'
SockError ==
  /\ Quiet
  /\ conn.sock \notin {"error", "destroyed"}
  /\ conn' = [onErrorMessage(onErrorConn(conn)) EXCEPT !.sock = "error"]
  /\ IF conn.messageWaiterReject
     THEN /\ tasks' = [tasks EXCEPT ![owner].status = "rejected"]
          /\ owner' = 0
     ELSE UNCHANGED <<tasks, owner>>
  /\ UNCHANGED <<rb, fed, cst, sent, lastSync, notClient>>

\* the socket emits 'data'
SockData ==
  \E n \in ChunkSizes :
    /\ Quiet
    /\ conn.sock = "open"
    /\ fed' = fed + n
    /\ \E f \in {feed(rb, chunk) : chunk \in {SubSeq(Wire, fed + 1, fed + n)}} :
       LET c == onDataPause(conn, f.bool)
       IN  IF f.err # ""
           THEN rb' = f.rb /\ UNCHANGED <<conn, tasks, owner>>
           ELSE IF ~c.messageWaiterResolve
           THEN rb' = f.rb /\ conn' = c /\ UNCHANGED <<tasks, owner>>
           ELSE \E o \in takeMessage(f.rb) :
                  /\ rb' = o.rb
                  /\ IF o.err = "" /\ o.bool
                     THEN /\ conn' = onDataResolve(c)
                          /\ tasks' = [tasks EXCEPT ![owner].status = "woken"]
                          /\ owner' = 0
                     ELSE conn' = c /\ UNCHANGED <<tasks, owner>>
    /\ UNCHANGED <<cst, sent, lastSync, notClient>>

\* connect(): awaits connWaiter, then writes the handshake
ConnectStart ==
  /\ tasks[1].phase = "connWaiter"
  /\ conn.connWaiter # "pending"
  /\ IF conn.connWaiter = "rejected"
     THEN /\ tasks' = [tasks EXCEPT ![1] = Failed(@, "TransportError")]
          /\ UNCHANGED sent
     ELSE \E w \in {HandshakeBuffer} :
            IF w.err # ""
            THEN /\ tasks' = [tasks EXCEPT ![1] = Failed(@, w.err)]
                 /\ UNCHANGED sent
            ELSE /\ tasks' = [tasks EXCEPT ![1].phase = "connect",
                                           ![1].status = "run"]
                 /\ sent' = Append(sent, [task |-> 1, bytes |-> w.bytes])
  /\ UNCHANGED <<rb, fed, conn, cst, owner, lastSync, notClient>>

\* the head of each loop: if (!this.buffer.takeMessage()) await
\* this.waitForMessage(), which calls takeMessage() again
TakeOrWait ==
  \E i \in 1..Len(tasks) :
    /\ tasks[i].phase \in Loops
    /\ tasks[i].status = "run"
    /\ \E o \in takeMessage(rb) :
         IF o.err # ""
         THEN /\ rb' = o.rb
              /\ tasks' = [tasks EXCEPT ![i] = Failed(@, o.err)]
              /\ UNCHANGED <<conn, owner>>
         ELSE IF o.bool
         THEN /\ rb' = o.rb
              /\ tasks' = [tasks EXCEPT ![i].status = "have"]
              /\ UNCHANGED <<conn, owner>>
         ELSE \E w \in takeMessage(o.rb) :
                /\ rb' = w.rb
                /\ IF w.err # ""
                   THEN /\ tasks' = [tasks EXCEPT ![i] = Failed(@, w.err)]
                        /\ UNCHANGED <<conn, owner>>
                   ELSE IF w.bool
                   THEN /\ tasks' = [tasks EXCEPT ![i].status = "have"]
                        /\ UNCHANGED <<conn, owner>>
                   ELSE /\ tasks' = [tasks EXCEPT ![i].status = "wait"]
                        /\ conn' = waitForMessageSuspend(conn)
                        /\ owner' = i
    /\ UNCHANGED <<fed, cst, sent, lastSync, notClient>>

\* the call goes on after the promise of waitForMessage was settled
Resumed ==
  \E i \in 1..Len(tasks) :
    /\ tasks[i].phase \in Loops
    /\ tasks[i].status \in {"woken", "rejected"}
    /\ tasks' = [tasks EXCEPT ![i] = IF @.status = "woken"
                                      THEN [@ EXCEPT !.status = "have"]
                                      ELSE Failed(@, "TransportError")]
    /\ UNCHANGED <<rb, fed, conn, cst, sent, owner, lastSync, notClient>>

\* one pass of the body of a loop had outcome o in call i
Dispatched(i, o) ==
  /\ rb' = o.rb
  /\ cst' = o.cst
  /\ tasks' = [tasks EXCEPT ![i] = IF o.err # "" THEN Failed(o.task, o.err)
                                    ELSE [o.task EXCEPT !.status = "run"]]
  /\ lastSync' = IF o.z # 0 - 1 THEN o.z ELSE lastSync
  /\ UNCHANGED <<fed, conn, sent, owner, notClient>>

ConnectFrame ==
  /\ tasks[1].phase = "connect" /\ tasks[1].status = "have"
  /\ \E o \in connectFrame(rb, cst, tasks[1]) : Dispatched(1, o)

ParseFrame ==
  \E i \in 1..Len(tasks) :
    /\ tasks[i].phase = "parse" /\ tasks[i].status = "have"
    /\ \E o \in parseFrame(rb, cst, tasks[i]) : Dispatched(i, o)

DescribeFrame ==
  \E i \in 1..Len(tasks) :
    /\ tasks[i].phase = "describe" /\ tasks[i].status = "have"
    /\ \E o \in describeFrame(rb, cst, tasks[i]) : Dispatched(i, o)

ExecuteFrame ==
  \E i \in 1..Len(tasks) :
    /\ tasks[i].phase = "execute" /\ tasks[i].status = "have"
    /\ \E o \in executeFrame(rb, cst, tasks[i]) : Dispatched(i, o)

Query == <<113>>
AsJson(fn) == fn \in {"fetchAllJSON", "fetchOneJSON"}
ExpectOne(fn) == fn \in {"fetchOne", "fetchOneJSON"}

\* the user calls a fetch method, which calls parse(): Parse and Sync are
\* written.  The user awaits each call before the next, except in the
\* scenario of overlapping calls; in the scenario of the unsolicited frames
\* the user waits for the transport to be paused.
Call ==
  LET i == Len(tasks) + 1
      fn == scen.calls[i - 1]
  IN  /\ Quiet
      /\ Len(tasks) >= 1 /\ tasks[1].phase = "done"
      /\ i - 1 <= Len(scen.calls)
      /\ i - 1 <= MaxCommands
      /\ scen.flood => conn.paused
      /\ ~cst.destroyed
      /\ scen.overlap \/ \A j \in 1..Len(tasks) :
                           tasks[j].phase \in {"done", "failed"}
      /\ \E w \in {ParseBuffer(Query, AsJson(fn), ExpectOne(fn))} :
           IF w.err # ""
           THEN /\ tasks' = Append(tasks, Failed(NewTask(fn, "parse"), w.err))
                /\ UNCHANGED sent
           ELSE /\ tasks' = Append(tasks, NewTask(fn, "parse"))
                /\ sent' = Append(sent, [task |-> i, bytes |-> w.bytes])
      /\ UNCHANGED <<rb, fed, conn, cst, owner, lastSync, notClient>>

\* execute() is entered: Execute and Sync are written
EnterExecute(i, k) ==
  \E w \in {ExecuteBuffer} :
    IF w.err # ""
    THEN /\ tasks' = [tasks EXCEPT ![i] = Failed(k, w.err)]
         /\ UNCHANGED sent
    ELSE /\ tasks' = [tasks EXCEPT ![i] = [k EXCEPT !.phase = "execute",
                                                     !.status = "run",
                                                     !.result = <<>>]]
         /\ sent' = Append(sent, [task |-> i, bytes |-> w.bytes])

\* parse() after its first loop: the error, the type ids, the codecs; then
\* DescribeStatement and Sync are written, or parse() returns and the fetch
\* method calls execute()
ParseEnd ==
  \E i \in 1..Len(tasks) :
    LET k == tasks[i]
        ic == getCodec(cst.known, k.inTypeId)
        oc == getCodec(cst.known, k.outTypeId)
        k1 == [k EXCEPT !.inCodec = ic, !.outCodec = oc]
    IN  /\ k.phase = "parsed"
        /\ IF k.error # "null"
           THEN tasks' = [tasks EXCEPT ![i] = Failed(k, "ServerError")]
                /\ UNCHANGED sent
           ELSE IF k.inTypeId = NullCodec \/ k.outTypeId = NullCodec
           THEN tasks' = [tasks EXCEPT ![i] = Failed(k, "Error: no type ids")]
                /\ UNCHANGED sent
           ELSE IF ic = NullCodec \/ oc = NullCodec
           THEN \E d \in {DescribeBuffer(Query, AsJson(k.fn), ExpectOne(k.fn))} :
                  IF d.err # ""
                  THEN tasks' = [tasks EXCEPT ![i] = Failed(k1, d.err)]
                       /\ UNCHANGED sent
                  ELSE /\ tasks' = [tasks EXCEPT ![i] =
                                      [k1 EXCEPT !.phase = "describe",
                                                 !.status = "run"]]
                       /\ sent' = Append(sent, [task |-> i, bytes |-> d.bytes])
           ELSE IF k.cardinality = 0 - 1
           THEN tasks' = [tasks EXCEPT ![i] = Failed(k1, "Error: no type")]
                /\ UNCHANGED sent
           ELSE EnterExecute(i, k1)
        /\ UNCHANGED <<rb, fed, conn, cst, owner, lastSync, notClient>>

\* parse() after its second loop
DescribeEnd ==
  \E i \in 1..Len(tasks) :
    LET k == tasks[i]
    IN  /\ k.phase = "described"
        /\ IF k.error # "null"
           THEN tasks' = [tasks EXCEPT ![i] = Failed(k, "ServerError")]
                /\ UNCHANGED sent
           ELSE IF k.cardinality = 0 - 1 \/ k.outCodec = NullCodec
                   \/ k.inCodec = NullCodec
           THEN tasks' = [tasks EXCEPT ![i] = Failed(k, "Error: no type")]
                /\ UNCHANGED sent
           ELSE EnterExecute(i, k)
        /\ UNCHANGED <<rb, fed, conn, cst, owner, lastSync, notClient>>

\* what a fetch method returns: fetchAll the result, the others result[0],
\* which is undefined when the result is empty
Undefined == [undefined |-> TRUE, rows |-> <<>>]
Returned(fn, result) ==
  IF fn = "fetchAll" THEN [undefined |-> FALSE, rows |-> result]
  ELSE IF result = <<>> THEN Undefined
  ELSE [undefined |-> FALSE, rows |-> <<result[1]>>]

\* execute() after its loop, and the return of the fetch method
ExecuteEnd ==
  \E i \in 1..Len(tasks) :
    LET k == tasks[i]
    IN  /\ k.phase = "executed"
        /\ tasks' = [tasks EXCEPT ![i] =
                       IF k.error # "null" THEN Failed(k, "ServerError")
                       ELSE Done(k, Returned(k.fn, k.result))]
        /\ UNCHANGED <<rb, fed, conn, cst, sent, owner, lastSync, notClient>>

\* close(): sock.destroy() is called without an error, so the socket emits
\* 'close' and no 'error'; the connection listens to 'error', 'data' and
\* 'connect' only, and no handler of it runs.  The user holds the connection
\* once the static connect() has returned it.
Close ==
  /\ Quiet
  /\ tasks[1].phase = "done"
  /\ ~cst.destroyed
  /\ conn' = [conn EXCEPT !.sock = "destroyed"]
  /\ cst' = [cst EXCEPT !.destroyed = TRUE]
  /\ UNCHANGED <<rb, fed, tasks, sent, owner, lastSync, notClient>>

NextClient ==
  \/ SockConnect
  \/ SockError
  \/ SockData
  \/ ConnectStart
  \/ TakeOrWait
  \/ Resumed
  \/ ConnectFrame
  \/ ParseFrame
  \/ DescribeFrame
  \/ ExecuteFrame
  \/ Call
  \/ ParseEnd
  \/ DescribeEnd
  \/ ExecuteEnd
  \/ Close

SpecClient == InitClient /\ [][NextClient]_vars

\* the steps of the calls: a call that can go on does, as the jobs of the
\* promises are run when the stack is empty; the events of the socket and
\* the calls of the user may never come
CallStep ==
  \/ ConnectStart
  \/ TakeOrWait
  \/ Resumed
  \/ ConnectFrame
  \/ ParseFrame
  \/ DescribeFrame
  \/ ExecuteFrame
  \/ ParseEnd
  \/ DescribeEnd
  \/ ExecuteEnd

SpecClientLive == SpecClient /\ WF_vars(CallStep)

(***************************************************************************)
(* Pausing and resuming the transport.                                     *)
(***************************************************************************)
\* the step is one of the head of the loop of call i
LoopHeadStep(i) ==
  /\ i <= Len(tasks) /\ Len(tasks') = Len(tasks)
  /\ tasks[i].phase \in Loops /\ tasks[i].status = "run"
  /\ tasks'[i] # tasks[i]

\* in it waitForMessage() was entered: the takeMessage() of the loop
\* returned false, and the one of waitForMessage() gave the buffer and the
\* outcome of the step
EntersWaitForMessage(i) ==
  /\ LoopHeadStep(i)
  /\ \E o \in takeMessage(rb) :
       /\ o.err = "" /\ ~o.bool
       /\ \E w \in takeMessage(o.rb) :
            /\ rb' = w.rb
            /\ tasks'[i].phase = "failed" <=> w.err # ""
            /\ tasks'[i].status = "have" <=> w.err = "" /\ w.bool

\* the step is onData(data) and its feed(data) returned true
FeedReportedFull ==
  /\ fed' > fed
  /\ \E f \in {feed(rb, SubSeq(Wire, fed + 1, fed'))} : f.err = "" /\ f.bool

\* C11: when feed reports the ring full inside onData the transport is paused
\* (paused is true, the socket paused), and every step in which
\* waitForMessage is entered leaves the transport not paused.
C11_PausedThenResumed ==
  [][/\ FeedReportedFull => conn'.paused /\ conn'.sock = "paused"
     /\ \A i \in 1..Len(tasks) :
          EntersWaitForMessage(i) => ~conn'.paused /\ conn'.sock # "paused"]_vars

\* the transport was paused by the unsolicited frames, a query was called,
\* has read them all and now waits in waitForMessage with the transport
\* resumed
C11_Witness ==
  /\ scen.flood
  /\ Len(tasks) = 2 /\ tasks[2].phase = "parse" /\ tasks[2].status = "wait"
  /\ ~conn.paused /\ conn.sock = "open"
  /\ fed > HsEnd + BUFFER_RING_CAPACITY

(***************************************************************************)
(* One command at a time.                                                  *)
(***************************************************************************)
\* call i (a fetch method) has returned or thrown
Completed(i) == tasks[i].phase \in {"done", "failed"}

\* the buffers call i has written to the socket
WrittenBy(i) == {n \in 1..Len(sent) : sent[n].task = i}

\* C12: while a fetch call has not completed, a fetch call made after it has
\* written nothing to the socket, has no frame to work on, and is not the
\* one the waiter of waitForMessage belongs to.
C12_NoInterleaving ==
  \A i \in 2..Len(tasks) : \A j \in (i + 1)..Len(tasks) :
    ~Completed(i) =>
      /\ WrittenBy(j) = {}
      /\ tasks[j].status # "have"
      /\ owner # j

(***************************************************************************)
(* ErrorResponse.                                                          *)
(***************************************************************************)
\* the answers of the server to the buffers call i has written
AnswersTo(i) ==
  {scen.resp[n - 1] : n \in {w \in WrittenBy(i) : w - 1 \in 1..Len(scen.resp)}}

\* the server has answered call i with an ErrorResponse
AnsweredWithError(i) ==
  \E a \in AnswersTo(i) : \E f \in 1..Len(a) : a[f] = FError

\* the read buffer holds no current message
NoCurrentMessage(s) ==
  s.curMessageType = 0 /\ s.curMessageLen = 0 /\ ~s.curMessageReady

\* the step in which call i raises the server error follows the
\* ReadyForCommand that ended its loop, and leaves no current message
RaisedAfterSync(i) ==
  (tasks'[i].thrown = "ServerError" /\ tasks[i].thrown # "ServerError") =>
    /\ tasks[i].phase \in {"parsed", "described", "executed"}
    /\ NoCurrentMessage(rb')

\* a call answered with an ErrorResponse ends by raising the server error
\* (or the error of the transport), and the call after one that raised the
\* server error, if not answered with an ErrorResponse itself, returns
ErrorsAnswered ==
  \A i \in 2..Len(tasks) :
    /\ Completed(i) /\ AnsweredWithError(i) =>
         tasks[i].thrown \in {"ServerError", "TransportError"}
    /\ (/\ i > 2 /\ tasks[i - 1].thrown = "ServerError"
        /\ Completed(i) /\ ~AnsweredWithError(i)) =>
         tasks[i].phase = "done" \/ tasks[i].thrown = "TransportError"

\* C13: in parse, describe and execute an ErrorResponse is raised as the
\* server error only after the next ReadyForCommand has been consumed; the
\* read buffer then holds no current message, and the next query on the
\* connection runs to its result.
C13_ErrorAfterSync ==
  [][/\ \A i \in 2..Len(tasks) : Len(tasks') = Len(tasks) => RaisedAfterSync(i)
     /\ ErrorsAnswered']_vars

(***************************************************************************)
(* Frames no phase handles.                                                *)
(***************************************************************************)
\* a call has thrown the error of fallthrough()'s default branch
ProtocolErrorRaised ==
  \E i \in 1..Len(tasks) : tasks[i].thrown = "Error: unexpected message type"

\* the connection is Closed: the transport has been destroyed
Closed == cst.destroyed /\ conn.sock = "destroyed"

\* a step in which a call writes to the socket or takes a message
WritesOrReads ==
  \/ sent' # sent
  \/ \E i \in 1..Len(tasks') :
       /\ tasks'[i].status = "have"
       /\ i <= Len(tasks) => tasks[i].status # "have"

\* C14: once a frame that no phase handles (and that is neither 'S' nor 'L')
\* has made a call raise the protocol error, the connection is Closed (the
\* transport is destroyed) and no step writes to the socket or takes a
\* message any more.
C14_UnknownTagCloses ==
  [][/\ ProtocolErrorRaised' => Closed'
     /\ ProtocolErrorRaised => ~WritesOrReads]_vars

(***************************************************************************)
(* connect().                                                              *)
(***************************************************************************)
\* a frame of the handshake that must make connect() fail: a ServerHandshake
\* whose version is not 1.0, an Authentication whose status is not 0, an
\* ErrorResponse
Refusing(f) ==
  \/ f.tag = chr_v /\ SubSeq(f.payload, 1, 4) # Int16Bytes(1) \o Int16Bytes(0)
  \/ f.tag = chr_R /\ SubSeq(f.payload, 1, 4) # Int32Bytes(AUTH_OK)
  \/ f.tag = chr_E

\* the server sends a refusing frame with no ReadyForCommand before it
RefusedBeforeReady ==
  \E n \in 1..Len(scen.hs) :
    /\ Refusing(scen.hs[n])
    /\ \A m \in 1..(n - 1) : scen.hs[m].tag # chr_Z

\* C15: connect() has resolved only if a ReadyForCommand has been processed
\* and the server has sent, before it, no ServerHandshake of another version
\* than 1.0, no Authentication of another status than 0 and no ErrorResponse.
C15_ConnectResolvesWhenReady ==
  \A i \in 1..Len(tasks) :
    (tasks[i].fn = "connect" /\ tasks[i].phase = "done") =>
      lastSync # 0 - 1 /\ ~RefusedBeforeReady

(***************************************************************************)
(* What the client writes.                                                 *)
(***************************************************************************)
\* the frames a written buffer consists of, each as its tag and its length
\* field; bytes that are no whole frame end the list with the tag -1
RECURSIVE SentFrames(_)
SentFrames(bytes) ==
  IF bytes = <<>> THEN <<>>
  ELSE IF Len(bytes) < 5 \/ ReadInt32BE(bytes, 1).num < 4
            \/ ReadInt32BE(bytes, 1).num + 1 > Len(bytes)
  THEN <<[tag |-> 0 - 1, len |-> 0]>>
  ELSE <<[tag |-> bytes[1], len |-> ReadInt32BE(bytes, 1).num]>>
         \o SentFrames(SubSeq(bytes, ReadInt32BE(bytes, 1).num + 2, Len(bytes)))

SentTags(bytes) == [n \in 1..Len(SentFrames(bytes)) |-> SentFrames(bytes)[n].tag]

\* a call has taken a frame of the server, or the buffer holds one
ServerFrameSeen ==
  \/ fed > 0
  \/ rb.curMessageType # 0
  \/ \E i \in 1..Len(tasks) : tasks[i].status = "have"

\* C16: nothing is written while the transport has not emitted 'connect';
\* when a frame of the server is processed the first thing written is
\* ClientHandshake ('V') followed by AuthenticationRequest ('0'); and when the
\* transport fails before connecting, connect() rejects with nothing written.
C16_HandshakeOrdering ==
  /\ conn.connWaiter = "pending" => sent = <<>>
  /\ ServerFrameSeen =>
       /\ sent # <<>> /\ sent[1].task = 1
       /\ SentTags(sent[1].bytes) = <<chr_V, chr_0>>
  /\ conn.connWaiter = "rejected" =>
       /\ sent = <<>>
       /\ tasks[1].phase \in {"connWaiter", "failed"}
       /\ tasks[1].phase = "failed" => tasks[1].thrown = "TransportError"

C16_Witness ==
  /\ conn.connWaiter = "resolved"
  /\ tasks[1].phase = "connect" /\ tasks[1].status = "have"
  /\ getMessageType(rb) = chr_v
  /\ SentTags(sent[1].bytes) = <<chr_V, chr_0>>

(***************************************************************************)
(* Transaction status.                                                     *)
(***************************************************************************)
\* the transaction status a status byte of ReadyForCommand stands for; -1
\* stands for no ReadyForCommand yet
SyncImage(byte) ==
  CASE byte = 73 -> "TRANS_IDLE"
    [] byte = 84 -> "TRANS_INTRANS"
    [] byte = 69 -> "TRANS_INERROR"
    [] OTHER -> "TRANS_UNKNOWN"

\* C17: the transaction status is UNKNOWN while no ReadyForCommand has been
\* processed and afterwards the image of the status byte of the last one
\* ('I' IDLE, 'T' IN_TRANSACTION, 'E' IN_ERROR, else UNKNOWN); a step whose
\* frame is not a ReadyForCommand leaves it as it was.
C17_XactStatusFollowsSync ==
  [][/\ cst.serverXactStatus = SyncImage(lastSync)
     /\ cst'.serverXactStatus = SyncImage(lastSync')
     /\ rb.curMessageType # chr_Z =>
          cst'.serverXactStatus = cst.serverXactStatus]_vars

C17_Witness ==
  /\ lastSync = 84 /\ cst.serverXactStatus = "TRANS_INTRANS"
  /\ \E i \in 2..Len(tasks) : tasks[i].phase = "done"

(***************************************************************************)
(* The results of the fetch methods.                                       *)
(***************************************************************************)
\* the answers of the server to the Execute buffer of call i
ExecuteAnswers(i) ==
  {scen.resp[n - 1] :
     n \in {w \in WrittenBy(i) : /\ w - 1 \in 1..Len(scen.resp)
                                 /\ SentTags(sent[w].bytes)[1] = chr_E}}

\* the rows of the Data frames of an answer, in the order of the frames: a
\* row is what follows the 6 bytes execute() discards
IsData(f) == f.tag = chr_D
DataRows(a) ==
  [n \in 1..Len(SelectSeq(a, IsData)) |->
     SubSeq(SelectSeq(a, IsData)[n].payload, 7,
            Len(SelectSeq(a, IsData)[n].payload))]

\* call i has failed because the transport reported an error
TransportFailed(i) ==
  tasks[i].phase = "failed" /\ tasks[i].thrown = "TransportError"

\* C18: a completed fetchOne whose Execute was answered without an
\* ErrorResponse has returned the row of the only Data frame when there was
\* exactly one, and has failed when there was none or more than one.
C18_FetchOneSingleRow ==
  \A i \in 2..Len(tasks) : \A a \in ExecuteAnswers(i) :
    (tasks[i].fn = "fetchOne" /\ Completed(i) /\ ~AnsweredWithError(i)) =>
      IF Len(DataRows(a)) = 1
      THEN \/ TransportFailed(i)
           \/ /\ tasks[i].phase = "done"
              /\ tasks[i].value = [undefined |-> FALSE, rows |-> DataRows(a)]
      ELSE tasks[i].phase = "failed"


\* C19: a completed fetchAll whose Execute was answered without an
\* ErrorResponse has returned the rows of the Data frames of that answer, one
\* per frame and in their order, however the answer was cut into chunks and
\* whether or not ParameterStatus or LogMessage frames stand between them.
C19_FetchAllRowsInOrder ==
  \A i \in 2..Len(tasks) : \A a \in ExecuteAnswers(i) :
    (tasks[i].fn = "fetchAll" /\ Completed(i) /\ ~AnsweredWithError(i)) =>
      \/ TransportFailed(i)
      \/ /\ tasks[i].phase = "done"
         /\ tasks[i].value = [undefined |-> FALSE, rows |-> DataRows(a)]


(***************************************************************************)
(* Sync.                                                                   *)
(***************************************************************************)
\* the buffers written after the handshake: those of Parse, DescribeStatement
\* and Execute
CommandBuffers == {sent[n].bytes : n \in 2..Len(sent)}

\* C20: every buffer written for Parse, DescribeStatement or Execute is the
\* frame of the command followed directly by a Sync frame (tag 'S', length 4,
\* no payload) and nothing more, and no buffer written holds a Flush frame
\* (tag 'H').
C20_CommandsEndWithSync ==
  /\ \A b \in CommandBuffers :
       /\ Len(SentFrames(b)) = 2
       /\ SentFrames(b)[1].tag \in {chr_P, chr_D, chr_E}
       /\ SentFrames(b)[2] = [tag |-> chr_S, len |-> 4]
  /\ \A n \in 1..Len(sent) : \A f \in 1..Len(SentFrames(sent[n].bytes)) :
       SentFrames(sent[n].bytes)[f].tag # chr_H

C20_Witness ==
  /\ <<chr_P, chr_S>> \in {SentTags(b) : b \in CommandBuffers}
  /\ <<chr_D, chr_S>> \in {SentTags(b) : b \in CommandBuffers}
  /\ <<chr_E, chr_S>> \in {SentTags(b) : b \in CommandBuffers}


(***************************************************************************)
(* DescribeStatement.                                                      *)
(***************************************************************************)
\* the PrepareComplete frames the server has sent to call i
PrepareFrames(i) ==
  {fr \in UNION {{a[f] : f \in 1..Len(a)} : a \in AnswersTo(i)} : fr.tag = chr_1}

\* the input and the output type id of a PrepareComplete frame
PreparedIn(fr) == SubSeq(fr.payload, 4, 19)
PreparedOut(fr) == SubSeq(fr.payload, 20, 35)

\* the step of call i writes one buffer, whose first frame has the tag
WritesCommand(i, tag) ==
  /\ Len(sent') = Len(sent) + 1
  /\ sent'[Len(sent')].task = i
  /\ SentTags(sent'[Len(sent')].bytes)[1] = tag

\* C21: when a call leaves the loop of Parse with a PrepareComplete and no
\* error, it writes DescribeStatement if and only if the registry lacks the
\* input or the output type id of that frame; when it has both, the call
\* writes Execute at once and uses the two registered codecs.
C21_DescribeIffUnknown ==
  [][\A i \in 2..Len(tasks) : \A fr \in PrepareFrames(i) :
       (/\ Len(tasks') = Len(tasks)
        /\ tasks[i].phase = "parsed" /\ tasks[i].error = "null"
        /\ tasks'[i] # tasks[i]) =>
         /\ WritesCommand(i, chr_D) <=>
              (PreparedIn(fr) \notin cst.known \/ PreparedOut(fr) \notin cst.known)
         /\ (PreparedIn(fr) \in cst.known /\ PreparedOut(fr) \in cst.known) =>
              /\ WritesCommand(i, chr_E)
              /\ tasks'[i].phase = "execute"
              /\ tasks'[i].inCodec = getCodec(cst.known, PreparedIn(fr))
              /\ tasks'[i].outCodec = getCodec(cst.known, PreparedOut(fr))]_vars


(***************************************************************************)
(* close().                                                                *)
(***************************************************************************)
\* call i is suspended in waitForMessage and the transport has been destroyed
SuspendedWhenClosed(i) ==
  /\ i <= Len(tasks)
  /\ cst.destroyed /\ conn.sock = "destroyed"
  /\ tasks[i].phase \in Loops /\ tasks[i].status = "wait"

\* call i has been rejected with the error of the transport
WokenWithTransportError(i) ==
  /\ i <= Len(tasks)
  /\ \/ tasks[i].status = "rejected"
     \/ TransportFailed(i)

\* C22: a call that is suspended in waitForMessage when close() has destroyed
\* the transport is eventually woken with a transport error.
C22_CloseWakesWaiter ==
  \A i \in 1..(MaxCommands + 1) :
    SuspendedWhenClosed(i) ~> WokenWithTransportError(i)


(***************************************************************************)
(* The socket after a failed connect().                                    *)
(***************************************************************************)
\* the socket is released: destroyed by the connection, or by its own error
\* (a socket that emits 'error' has been destroyed with that error)
SocketReleased == cst.destroyed \/ conn.sock \in {"destroyed", "error"}

\* C23: when connect() has rejected, whatever made it fail, the socket it
\* was given has been destroyed.
C23_FailedConnectReleasesSocket ==
  (tasks[1].fn = "connect" /\ tasks[1].phase = "failed") => SocketReleased


(***************************************************************************)
(* The 'error' event of the transport.                                     *)
(***************************************************************************)
\* the transport has emitted 'error' and call i has not completed
PendingAtError(i) ==
  /\ i <= Len(tasks)
  /\ conn.sock = "error"
  /\ ~Completed(i)

\* C24: when the transport emits 'error', the waiter of the connection and
\* the waiter of a message are rejected, and from then on every call that
\* has not completed, whether it was waiting then or was started afterwards,
\* eventually fails.
C24_ErrorFailsEveryCall ==
  /\ [][(conn.sock # "error" /\ conn'.sock = "error") =>
          /\ conn'.connWaiter # "pending"
          /\ ~conn'.messageWaiterReject /\ ~conn'.messageWaiterResolve
          /\ owner # 0 => tasks'[owner].status = "rejected"]_vars
  /\ \A i \in 1..(MaxCommands + 1) :
       PendingAtError(i) ~> (i <= Len(tasks) /\ tasks[i].phase = "failed")

(***************************************************************************)
(* SpecResolved: the setters of a ResolvedConnectConfig, called in any     *)
(* order with any of a few values and either of two source labels.         *)
(***************************************************************************)
MaxSetterCalls == 3

Labels == {<<"'dsnOrInstanceName' option (parsed as dsn)">>,
           <<"'EDGEDB_DSN' environment variable">>}

\* the values the setters are called with
HostValues == {"h1", "a,b", Null}
PortValues == {"5656", "0", Null}
DatabaseValues == {"db1", "", Null}
UserValues == {"u1", "u2", Null}
PasswordValues == {"pw1", Null}
CADataValues == {"CERT", Null}
CAFileValues == {"ca.pem", "none.pem", Null}
VerifyValues == {"no", "maybe", Null}

InitResolved ==
  /\ NoRead /\ NoSplit /\ InitWrite /\ NoRing /\ NoConn
  /\ cfg = NewResolvedConnectConfig
  /\ cin = <<>>
  /\ cres = [op |-> "", param |-> "", value |-> Null, source |-> NoSource,
             ret |-> FALSE, err |-> "", n |-> 0]
  /\ cod = <<>>

\* one call of a setter, with its outcome
SetterCall(op, param, value, source, o) ==
  /\ cres.n < MaxSetterCalls
  /\ cfg' = o.cfg
  /\ cres' = [op |-> op, param |-> param, value |-> value, source |-> source,
              ret |-> o.ret, err |-> o.err, n |-> cres.n + 1]
  /\ UNCHANGED <<cin, cod, notConfig>>

SetHost ==
  \E v \in HostValues, s \in Labels :
    SetterCall("setHost", "host", v, s, setHost(cfg, v, s))
SetPort ==
  \E v \in PortValues, s \in Labels :
    SetterCall("setPort", "port", v, s, setPort(cfg, v, s))
SetDatabase ==
  \E v \in DatabaseValues, s \in Labels :
    SetterCall("setDatabase", "database", v, s, setDatabase(cfg, v, s))
SetUser ==
  \E v \in UserValues, s \in Labels :
    SetterCall("setUser", "user", v, s, setUser(cfg, v, s))
SetPassword ==
  \E v \in PasswordValues, s \in Labels :
    SetterCall("setPassword", "password", v, s, setPassword(cfg, v, s))
SetTlsCAData ==
  \E v \in CADataValues, s \in Labels :
    SetterCall("setTlsCAData", "tlsCAData", v, s, setTlsCAData(cfg, v, s))
SetTlsCAFile ==
  \E v \in CAFileValues, s \in Labels :
    SetterCall("setTlsCAFile", "tlsCAData", v, s, setTlsCAFile(cfg, v, s))
SetTlsVerifyHostname ==
  \E v \in VerifyValues, s \in Labels :
    SetterCall("setTlsVerifyHostname", "tlsVerifyHostname", v, s,
               setTlsVerifyHostname(cfg, v, s))

NextResolved ==
  \/ SetHost
  \/ SetPort
  \/ SetDatabase
  \/ SetUser
  \/ SetPassword
  \/ SetTlsCAData
  \/ SetTlsCAFile
  \/ SetTlsVerifyHostname

SpecResolved == InitResolved /\ [][NextResolved]_vars

\* C25: once a field of a ResolvedConnectConfig holds a non-null value, no
\* call of a setter changes the field or the label of its source; a call on
\* a field that is null with a value the validator accepts stores what the
\* validator made of the value, under the label of the call.  Hence of two
\* sources that give one field, the field and its label are those of the
\* source whose setter is called first.
C25_StickyConfig ==
  [][\A p \in Params :
       /\ cfg[p].value # Null => cfg'[p] = cfg[p]
       /\ (cfg[p].value = Null /\ cfg'[p].value # Null) =>
            /\ cres'.param = p /\ cres'.ret /\ cres'.value # Null
            /\ cfg'[p].source = cres'.source]_vars

\* setUser has stored "u1" under the first label, and the call after it,
\* with "u2" under the second label, has returned false
C25_Witness ==
  /\ cfg.user = [value |-> "u1",
                 source |-> <<"'dsnOrInstanceName' option (parsed as dsn)">>]
  /\ cres.op = "setUser" /\ cres.value = "u2"
  /\ cres.source = <<"'EDGEDB_DSN' environment variable">>
  /\ ~cres.ret /\ cres.err = ""


(***************************************************************************)
(* SpecConfig: the caller of parseConnectArguments() gives a few options,  *)
(* the environment holds a few variables, the current directory is at the  *)
(* bottom of one of a few chains of directories; then the function is      *)
(* called.                                                                 *)
(***************************************************************************)
MaxOptions == 3

\* the options of ConnectConfig the model gives, and the values of each
ConnectOptions == OptionNames \ {"instanceName"}
OptionValues(n) ==
  CASE n = "dsn" -> {"edgedb://u1:pw1@h1:5656/db1", "edgedb://u1@h1?user=u2",
                     "inst1"}
    [] n = "credentialsFile" -> {"c.json"}
    [] n = "host" -> {"h0"}
    [] n = "port" -> {"5656"}
    [] n = "database" -> {"db0", ""}
    [] n = "user" -> {"u0"}
    [] n = "password" -> {"pw0"}
    [] n = "tlsCAFile" -> {"ca.pem"}
    [] OTHER -> {"no"}
EnvValues(n) ==
  CASE n = "EDGEDB_DSN" -> {"edgedb://h2", "edgedb://h1?user_env=MY_USER"}
    [] n = "EDGEDB_INSTANCE" -> {"inst1"}
    [] n = "EDGEDB_CREDENTIALS_FILE" -> {"c.json"}
    [] n = "EDGEDB_HOST" -> {"h3"}
    [] n = "EDGEDB_PORT" -> {"10702", "tcp://10.0.0.1:5656"}
    [] n = "EDGEDB_DATABASE" -> {"db3"}
    [] n = "EDGEDB_USER" -> {"u3", ""}
    [] n = "EDGEDB_PASSWORD" -> {"pw3"}
    [] n = "EDGEDB_TLS_CA_FILE" -> {"ca.pem"}
    [] n = "EDGEDB_TLS_VERIFY_HOSTNAME" -> {"yes"}
    [] OTHER -> {"u4"}

\* the chains of directories: no edgedb.toml; one in the current directory;
\* one in the parent; one in a parent on another device; one above a parent
\* on another device
Dir(toml, dev) == [toml |-> toml, dev |-> dev]
DirChains ==
  { <<Dir(FALSE, 0)>>,
    <<Dir(TRUE, 0)>>,
    <<Dir(FALSE, 0), Dir(TRUE, 0)>>,
    <<Dir(FALSE, 0), Dir(TRUE, 1)>>,
    <<Dir(FALSE, 0), Dir(FALSE, 1), Dir(TRUE, 0)>> }
\* a chain, and the instance name in the stash directory of the project:
\* a project that is not linked has no stash directory
Projects ==
  {<<dirs, "inst1">> : dirs \in DirChains} \cup {<< <<Dir(TRUE, 0)>>, Undefined_>>}

InitConfig ==
  /\ NoRead /\ NoSplit /\ InitWrite /\ NoRing /\ NoConn
  /\ cfg = NewResolvedConnectConfig
  /\ \E p \in Projects :
       cin = [opts |-> [n \in ConnectOptions |-> Undefined_],
              commandTimeout |-> Undefined_, env |-> NoEnv, dirs |-> p[1],
              stash |-> p[2]]
  /\ cres = [called |-> FALSE, err |-> "", fromEnv |-> FALSE,
             fromProject |-> FALSE, inProject |-> FALSE]
  /\ cod = <<>>

\* how many options and variables are given
Given ==
  Cardinality({n \in ConnectOptions : cin.opts[n] # Undefined_})
  + Cardinality({n \in EnvNames : cin.env[n] # Undefined_})
  + (IF cin.commandTimeout # Undefined_ THEN 1 ELSE 0)

\* the caller adds an option to the object it will pass
GiveOption ==
  \E n \in ConnectOptions :
    \E v \in OptionValues(n) :
      /\ ~cres.called
      /\ Given < MaxOptions
      /\ cin.opts[n] = Undefined_
      /\ cin' = [cin EXCEPT !.opts[n] = v]
      /\ UNCHANGED <<cfg, cres, cod, notConfig>>

GiveCommandTimeout ==
  \E v \in {"10", "-1"} :
    /\ ~cres.called
    /\ Given < MaxOptions
    /\ cin.commandTimeout = Undefined_
    /\ cin' = [cin EXCEPT !.commandTimeout = v]
    /\ UNCHANGED <<cfg, cres, cod, notConfig>>

\* a variable of the environment is set before the call
SetEnv ==
  \E n \in EnvNames :
    \E v \in EnvValues(n) :
      /\ ~cres.called
      /\ Given < MaxOptions
      /\ cin.env[n] = Undefined_
      /\ cin' = [cin EXCEPT !.env[n] = v]
      /\ UNCHANGED <<cfg, cres, cod, notConfig>>

\* the options as resolveConfigOptions takes them
OptsOf(opts) ==
  [n \in OptionNames |-> IF n = "instanceName" THEN Undefined_ ELSE opts[n]]

ParseConnectArguments ==
  \E o \in {parseConnectArguments(OptsOf(cin.opts), cin.commandTimeout,
                                  cin.env, cin.dirs, cin.stash)} :
    /\ ~cres.called
    /\ cfg' = o.cfg
    /\ cres' = [called |-> TRUE, err |-> o.err, fromEnv |-> o.fromEnv,
                fromProject |-> o.fromProject, inProject |-> o.inProject]
    /\ UNCHANGED <<cin, cod, notConfig>>

NextConfig ==
  \/ GiveOption
  \/ GiveCommandTimeout
  \/ SetEnv
  \/ ParseConnectArguments

SpecConfig == InitConfig /\ [][NextConfig]_vars

\* how many of {dsn, instanceName, credentialsFile, host-or-port} each level
\* holds; an EDGEDB_PORT of the form tcp://host:port, which 'docker --link'
\* sets, does not count
CompoundGiven(opts) ==
  Cardinality({n \in {"dsn", "credentialsFile"} : opts[n] # Undefined_})
  + (IF opts["host"] # Undefined_ \/ opts["port"] # Undefined_ THEN 1 ELSE 0)
CompoundInEnv(env) ==
  Cardinality({n \in {"EDGEDB_DSN", "EDGEDB_INSTANCE",
                      "EDGEDB_CREDENTIALS_FILE"} : env[n] # Undefined_})
  + (IF \/ env["EDGEDB_HOST"] # Undefined_
        \/ env["EDGEDB_PORT"] # Undefined_ /\ ~StartsWithTcp(env["EDGEDB_PORT"])
     THEN 1 ELSE 0)

\* C26: when the explicit options, or the variables of the environment,
\* hold two or more of {dsn, instanceName, credentialsFile, host-or-port},
\* parseConnectArguments raises an error, whatever the other level holds.
C26_CompoundOptionsRule ==
  (cres.called /\ (CompoundGiven(cin.opts) > 1 \/ CompoundInEnv(cin.env) > 1))
    => cres.err # ""


\* the scalar options, the field each sets, and what the validator of its
\* setter makes of a value
ScalarOptions == {"database", "user", "password", "tlsCAFile",
                  "tlsVerifyHostname"}
FieldOf(n) == IF n = "tlsCAFile" THEN "tlsCAData" ELSE n
StoredFor(n, v) ==
  CASE n = "tlsCAFile" -> readFileUtf8Sync(v).value
    [] n = "tlsVerifyHostname" -> parseVerifyHostname(v).value
    [] OTHER -> v

\* the field holds a value that the level of the explicit options gave
SetByOptions(p) ==
  /\ cfg[p].value # Null
  /\ \E n \in OptionNames : cfg[p].source[1] = OptionSources[n][1]

\* C27: a scalar option (database, user, password, tlsCAFile,
\* tlsVerifyHostname) given in the environment is used whenever the explicit
\* options did not set its field, whichever compound option they hold: when
\* parseConnectArguments returns, the field holds the value of the variable
\* under the label of the variable.
C27_ScalarsCombineAcrossLevels ==
  (cres.called /\ cres.err = "") =>
    \A n \in ScalarOptions :
      cin.env[EnvOf(n)] # Undefined_ =>
        \/ SetByOptions(FieldOf(n))
        \/ cfg[FieldOf(n)] = [value |-> StoredFor(n, cin.env[EnvOf(n)]),
                              source |-> EnvSources[n]]


(***************************************************************************)
(* SpecDsn: a DSN is put together from values in the URL itself and from   *)
(* pairs of its query, and parseDSNIntoConfig is called with it on a       *)
(* config in which a source of higher precedence has set one field, or     *)
(* none.                                                                   *)
(***************************************************************************)
MaxPieces == 2

\* the value a source of higher precedence gives a field
PresetValue(p) ==
  CASE p = "host" -> "h0"
    [] p = "port" -> "5656"
    [] p = "database" -> "db0"
    [] p = "user" -> "u0"
    [] p = "password" -> "pw0"
    [] p = "tlsCAData" -> "CERT"
    [] OTHER -> "true"
Preset(p) ==
  [NewResolvedConnectConfig EXCEPT
     ![p] = [value |-> PresetValue(p), source |-> <<"'" \o p \o "' option">>]]

\* the parts of the URL itself and the value the model gives each
UrlParts == {"hostname", "port", "pathname", "username", "password"}
UrlValue(part) ==
  CASE part = "hostname" -> "h1"
    [] part = "port" -> "5656"
    [] part = "pathname" -> "/db1"
    [] part = "username" -> "u1"
    [] OTHER -> "pw1"

\* the keys of the query and the values the model gives each: the three
\* variants of every part, and a key that is a server setting
QueryKeys ==
  UNION {{DSNParts[i].name, DSNParts[i].env, DSNParts[i].file} :
           i \in 1..Len(DSNParts)} \cup {"extra"}
QueryValues(key) ==
  IF key \in {DSNParts[i].env : i \in 1..Len(DSNParts)} THEN {"MY_USER", "NO_VAR"}
  ELSE IF key \in {DSNParts[i].file : i \in 1..Len(DSNParts)} THEN {"pw.txt"}
  ELSE CASE key = "host" -> {"h2"}
         [] key = "port" -> {"10702"}
         [] key = "database" -> {"db2"}
         [] key = "user" -> {"u2", ""}
         [] key = "password" -> {"pw2"}
         [] key = "tls_cert_file" -> {"ca.pem"}
         [] key = "tls_verify_hostname" -> {"no"}
         [] OTHER -> {"x"}

\* the environment parseDSNIntoConfig reads: MY_USER is set
DsnEnv == [NoEnv EXCEPT !["MY_USER"] = "u4"]

InitDsn ==
  /\ NoRead /\ NoSplit /\ InitWrite /\ NoRing /\ NoConn
  /\ \E p \in Params \cup {"none"} :
       /\ cfg = IF p = "none" THEN NewResolvedConnectConfig ELSE Preset(p)
       /\ cin = [url |-> URL("edgedb:", "", "", "", "", "", <<>>),
                 preset |-> p, n |-> 0]
  /\ cres = [called |-> FALSE, err |-> ""]
  /\ cod = <<>>

\* the DSN gets a value in the URL itself
AddUrlValue ==
  \E part \in UrlParts :
    /\ ~cres.called
    /\ cin.n < MaxPieces
    /\ cin.url[part] = ""
    /\ cin' = [cin EXCEPT !.url[part] = UrlValue(part), !.n = @ + 1]
    /\ UNCHANGED <<cfg, cres, cod, notConfig>>

\* the DSN gets one more pair in its query
AddQuery ==
  \E key \in QueryKeys :
    \E value \in QueryValues(key) :
      /\ ~cres.called
      /\ cin.n < MaxPieces
      /\ cin' = [cin EXCEPT !.url.search = Append(@, <<key, value>>),
                            !.n = @ + 1]
      /\ UNCHANGED <<cfg, cres, cod, notConfig>>

ParseDSN ==
  \E o \in {parseDSNIntoConfig(cin.url, cfg,
              <<"'dsnOrInstanceName' option (parsed as dsn)">>, DsnEnv)} :
    /\ ~cres.called
    /\ cfg' = o.cfg
    /\ cres' = [called |-> TRUE, err |-> o.err]
    /\ UNCHANGED <<cin, cod, notConfig>>

NextDsn ==
  \/ AddUrlValue
  \/ AddQuery
  \/ ParseDSN

SpecDsn == InitDsn /\ [][NextDsn]_vars

\* how many of the variants of the i-th part the DSN gives: the value in the
\* URL itself, ?x=, ?x_env=, ?x_file=
VariantsInDsn(url, i) ==
  Cardinality({k \in {DSNParts[i].name, DSNParts[i].env, DSNParts[i].file} :
                 \E j \in 1..Len(url.search) : url.search[j][1] = k})
  + (IF DSNPartValue(url, DSNParts[i].name) \in {Null, ""} THEN 0 ELSE 1)

\* C28: parseDSNIntoConfig raises an error whenever the DSN gives more than
\* one of the variants of one field (the value in the URL itself, ?x=,
\* ?x_env=, ?x_file=), also when a source of higher precedence has set that
\* field already, and whenever a key occurs twice in the query.
C28_DsnVariantsConflict ==
  (/\ cres.called
   /\ \/ \E i \in 1..Len(DSNParts) : VariantsInDsn(cin.url, i) > 1
      \/ HasDuplicateKey(cin.url.search))
    => cres.err # ""

\* the user is set by a source of higher precedence, the DSN gives a user in
\* the URL itself and another as ?user=, and parseDSNIntoConfig has raised
\* the error of the variants
C28_Witness ==
  /\ cres.called
  /\ cin.preset = "user"
  /\ cin.url.username = "u1"
  /\ cin.url.search = << <<"user", "u2">> >>
  /\ cres.err = "invalid DSN: more than one of"
  /\ cfg["user"].value = "u0"


\* parseConnectArguments has raised the error of the missing edgedb.toml
NoTomlError ==
  /\ cres.called
  /\ cres.err = "no 'edgedb.toml' found and no connection options specified"

\* neither the explicit options nor the environment supply a compound option
NoCompoundOption ==
  CompoundGiven(cin.opts) = 0 /\ CompoundInEnv(cin.env) = 0

\* an edgedb.toml exists in the current directory or in an ancestor that is
\* on the device of the current directory
TomlOnDevice(dirs) ==
  \E i \in 1..Len(dirs) : dirs[i].toml /\ dirs[i].dev = dirs[1].dev

\* an edgedb.toml exists in the current directory or in an ancestor below
\* the first ancestor that is on another device
TomlBelowBoundary(dirs) ==
  \E i \in 1..Len(dirs) :
    dirs[i].toml /\ \A j \in 1..i : dirs[j].dev = dirs[1].dev

\* the setter of a scalar option throws on the value
Rejected(n, v) ==
  CASE n \in {"database", "user"} -> v = ""
    [] n = "tlsCAFile" -> readFileUtf8Sync(v).err # ""
    [] n = "tlsVerifyHostname" -> parseVerifyHostname(v).err # ""
    [] OTHER -> FALSE

\* commandTimeout is rejected, or the value of a scalar option, or that of
\* a scalar variable whose option is not given
RejectedFirst ==
  \/ cin.commandTimeout \notin {Undefined_, "0", "10"}
  \/ \E n \in ScalarOptions :
       \/ cin.opts[n] # Undefined_ /\ Rejected(n, cin.opts[n])
       \/ /\ cin.opts[n] = Undefined_
          /\ cin.env[EnvOf(n)] # Undefined_
          /\ Rejected(n, cin.env[EnvOf(n)])

\* C29 as the claim states it: parseConnectArguments raises the error "no
\* 'edgedb.toml' found" if and only if neither the explicit options nor the
\* environment supply a compound option and no edgedb.toml exists in the
\* current directory or in an ancestor on the same device.
C29_NoTomlErrorIff ==
  cres.called =>
    (NoTomlError <=> (NoCompoundOption /\ ~TomlOnDevice(cin.dirs)))

\* C29, corrected: parseConnectArguments raises the error "no 'edgedb.toml'
\* found" if and only if it rejects neither commandTimeout nor a scalar
\* option first, neither the explicit options nor the environment supply a
\* compound option, and no edgedb.toml exists in the current directory or in
\* an ancestor below the first one that is on another device.
C29_NoTomlErrorIffNothingRejected ==
  cres.called =>
    (NoTomlError <=>
       (~RejectedFirst /\ NoCompoundOption /\ ~TomlBelowBoundary(cin.dirs)))

\* the error is raised with a scalar option and a scalar variable given, in
\* a directory whose parent, on another device, holds an edgedb.toml
C29_Witness ==
  /\ NoTomlError
  /\ cin.opts["database"] = "db0"
  /\ cin.env["EDGEDB_USER"] = "u3"
  /\ cin.dirs = <<Dir(FALSE, 0), Dir(TRUE, 1)>>
  /\ cfg["user"].value = "u3"


(***************************************************************************)
(* SpecCodec: values are encoded by Int32Codec one after the other into a  *)
(* WriteBuffer, which holds nothing at first or is six bytes short of its  *)
(* size, and each is decoded from the bytes encode wrote for it.           *)
(***************************************************************************)
MaxEncoded == 2

\* the integers of the model: the ends of the range of int32, the example
\* of the specification, and values that differ in one byte each
Int32Values ==
  {0 - 2147483647 - 1, 0 - 2147483647, 0 - 16777216, 0 - 123456, 0 - 129,
   0 - 128, 0 - 1, 0, 1, 4, 127, 128, 255, 256, 65535, 65536, 16777215,
   16777216, 2147483646, 2147483647}

\* a WriteBuffer into which n zero bytes have been written
Prefilled(n) == WriteBuffer_writeBuffer(NewWriteBuffer, [i \in 1..n |-> 0]).w

InitCodec ==
  /\ NoRead /\ NoSplit /\ InitWrite /\ NoRing /\ NoConn
  /\ cfg = NewResolvedConnectConfig
  /\ cin = <<>>
  /\ cres = <<>>
  /\ \E n \in {0, BUFFER_INC_SIZE - 6} :
       cod = [w |-> Prefilled(n), phase |-> "idle", v |-> 0, at |-> n,
              num |-> 0, err |-> "", n |-> 0]

\* Int32Codec.encode(w, v)
Encode ==
  \E v \in Int32Values :
    \E o \in {Int32Codec_encode(cod.w, v)} :
      /\ cod.phase \in {"idle", "decoded"}
      /\ cod.n < MaxEncoded
      /\ cod' = [cod EXCEPT !.w = o.w, !.phase = "encoded", !.v = v,
                            !.at = cod.w.pos, !.err = o.err, !.n = @ + 1]
      /\ UNCHANGED <<cfg, cin, cres, notConfig>>

\* the bytes written since the last encode began
Encoded == SubSeq(WriteBuffer_unwrap(cod.w), cod.at + 1, cod.w.pos)

\* Int32Codec.decode on a reader of the bytes after the length
Decode ==
  \E o \in {Int32Codec_decode(
              ReadBufferInit(SubSeq(Encoded, 5, Len(Encoded))))} :
    /\ cod.phase = "encoded"
    /\ cod.err = ""
    /\ cod' = [cod EXCEPT !.phase = "decoded", !.num = o.num, !.err = o.err]
    /\ UNCHANGED <<cfg, cin, cres, notConfig>>

NextCodec ==
  \/ Encode
  \/ Decode

SpecCodec == InitCodec /\ [][NextCodec]_vars

\* the integer that four bytes are the big-endian two's complement of
TwosComplement(b) ==
  (IF b[1] >= 128 THEN b[1] - 256 ELSE b[1]) * 16777216
  + b[2] * 65536 + b[3] * 256 + b[4]

\* C30: for every integer v of the range of int32, Int32Codec.encode writes
\* eight bytes after those the buffer held: the length 4 as four big-endian
\* bytes, then the four bytes v is the big-endian two's complement of (for
\* -123456: 00 00 00 04 FF FE 1D C0); decode on those four bytes returns v.
C30_Int32RoundTrip ==
  /\ cod.phase = "encoded" =>
       /\ cod.err = ""
       /\ cod.w.pos = cod.at + 8
       /\ SubSeq(Encoded, 1, 4) = <<0, 0, 0, 4>>
       /\ \A i \in 5..8 : Encoded[i] \in 0..255
       /\ TwosComplement(SubSeq(Encoded, 5, 8)) = cod.v
       /\ cod.v = 0 - 123456 => Encoded = <<0, 0, 0, 4, 255, 254, 29, 192>>
  /\ cod.phase = "decoded" => (cod.err = "" /\ cod.num = cod.v)

\* -123456 has been encoded after an earlier value, across the end of the
\* buffer as it was allocated, and decoded
C30_Witness ==
  /\ cod.phase = "decoded"
  /\ cod.v = 0 - 123456
  /\ cod.num = 0 - 123456
  /\ cod.at = BUFFER_INC_SIZE + 2
  /\ Encoded = <<0, 0, 0, 4, 255, 254, 29, 192>>


(***************************************************************************)
(* SpecInt64: as SpecCodec, with Int64Codec.                               *)
(***************************************************************************)
InitInt64 ==
  /\ NoRead /\ NoSplit /\ InitWrite /\ NoRing /\ NoConn
  /\ cfg = NewResolvedConnectConfig
  /\ cin = <<>>
  /\ cres = <<>>
  /\ \E n \in {0, BUFFER_INC_SIZE - 6} :
       cod = [w |-> Prefilled(n), phase |-> "idle", v |-> 0, at |-> n,
              high |-> 0, low |-> 0, exact |-> TRUE, err |-> "", n |-> 0]

\* Int64Codec.encode(w, v)
Encode64 ==
  \E v \in Int32Values :
    \E o \in {Int64Codec_encode(cod.w, v)} :
      /\ cod.phase \in {"idle", "decoded"}
      /\ cod.n < MaxEncoded
      /\ cod' = [cod EXCEPT !.w = o.w, !.phase = "encoded", !.v = v,
                            !.at = cod.w.pos, !.err = o.err, !.n = @ + 1]
      /\ UNCHANGED <<cfg, cin, cres, notConfig>>

\* Int64Codec.decode on a reader of the bytes after the length
Decode64 ==
  \E o \in {Int64Codec_decode(
              ReadBufferInit(SubSeq(Encoded, 5, Len(Encoded))))} :
    /\ cod.phase = "encoded"
    /\ cod.err = ""
    /\ cod' = [cod EXCEPT !.phase = "decoded", !.high = o.high, !.low = o.low,
                          !.exact = o.exact, !.err = o.err]
    /\ UNCHANGED <<cfg, cin, cres, notConfig>>

NextInt64 ==
  \/ Encode64
  \/ Decode64

SpecInt64 == InitInt64 /\ [][NextInt64]_vars

\* the high word of the 64-bit two's complement of an integer of the range
\* of int32: the sign
SignWord(v) == IF v < 0 THEN 0 - 1 ELSE 0

\* C31: for every integer v of the range of int32, Int64Codec.encode writes
\* the length 8 and then the high and the low 32-bit word of the 64-bit
\* two's complement of v, and decode on those eight bytes returns v.
C31_Int64RoundTrip ==
  /\ cod.phase = "encoded" =>
       /\ cod.err = ""
       /\ cod.w.pos = cod.at + 12
       /\ SubSeq(Encoded, 1, 4) = <<0, 0, 0, 8>>
       /\ TwosComplement(SubSeq(Encoded, 5, 8)) = SignWord(cod.v)
       /\ TwosComplement(SubSeq(Encoded, 9, 12)) = cod.v
  /\ cod.phase = "decoded" =>
       /\ cod.err = "" /\ cod.exact
       /\ cod.high = SignWord(cod.v) /\ cod.low = cod.v


(***************************************************************************)
(* SpecAlloc: typed writes and reset() on one WriteBuffer, with the        *)
(* capacity and the position before the last call kept beside it.          *)
(***************************************************************************)
\* the most calls on the WriteBuffer of SpecAlloc
MaxAllocCalls == 4

\* the lengths of the buffers given to writeBuffer and writeString
AllocLens == {1, 5, BUFFER_INC_SIZE + 1}

\* the capacity: the length of the underlying buffer
Capacity(w) == w.buffer.length

InitAlloc ==
  /\ NoRead /\ NoSplit /\ InitWrite /\ NoRing /\ NoConn
  /\ cfg = NewResolvedConnectConfig
  /\ cin = <<>>
  /\ cres = <<>>
  /\ \E n \in {0, BUFFER_INC_SIZE - 6} :
       cod = [w |-> Prefilled(n), op |-> "new", cap0 |-> BUFFER_INC_SIZE,
              pos0 |-> n, need |-> n, kept |-> TRUE, err |-> "", n |-> 0]

\* the call op, which needs room for extra bytes, had outcome o
AllocCalled(op, extra, o) ==
  /\ cod.n < MaxAllocCalls
  /\ cod' = [w |-> o.w, op |-> op, cap0 |-> Capacity(cod.w),
             pos0 |-> cod.w.pos, need |-> cod.w.pos + extra,
             kept |-> (WRange(o.w.buffer, 0, cod.w.pos)
                         = WRange(cod.w.buffer, 0, cod.w.pos)),
             err |-> o.err, n |-> cod.n + 1]
  /\ UNCHANGED <<cfg, cin, cres, notConfig>>

AReset ==
  /\ cod.n < MaxAllocCalls
  /\ cod' = [cod EXCEPT !.w = WriteBuffer_reset(cod.w), !.op = "reset",
                        !.cap0 = Capacity(cod.w), !.pos0 = cod.w.pos,
                        !.need = 0, !.kept = TRUE, !.err = "", !.n = @ + 1]
  /\ UNCHANGED <<cfg, cin, cres, notConfig>>

AWriteChar ==
  \E o \in {WriteBuffer_writeChar(cod.w, 7)} : AllocCalled("write", 1, o)

AWriteInt16 ==
  \E o \in {WriteBuffer_writeInt16(cod.w, 258)} : AllocCalled("write", 2, o)

AWriteInt32 ==
  \E o \in {WriteBuffer_writeInt32(cod.w, 16909060)} : AllocCalled("write", 4, o)

AWriteBuffer ==
  \E k \in AllocLens :
    \E o \in {WriteBuffer_writeBuffer(cod.w, [i \in 1..k |-> 1])} :
      AllocCalled("write", k, o)

AWriteString ==
  \E k \in AllocLens :
    \E o \in {WriteBuffer_writeString(cod.w, [i \in 1..k |-> 97])} :
      AllocCalled("write", k + 4, o)

NextAlloc ==
  \/ AReset
  \/ AWriteChar
  \/ AWriteInt16
  \/ AWriteInt32
  \/ AWriteBuffer
  \/ AWriteString

SpecAlloc == InitAlloc /\ [][NextAlloc]_vars

\* C32: over writes and reset() the capacity of a WriteBuffer never gets
\* smaller, and a write that needs more than the capacity leaves a capacity
\* of at least what it needs plus 4096, with the bytes [0, position) of
\* before the write kept.
C32_NeverShrinks ==
  /\ Capacity(cod.w) >= cod.cap0
  /\ cod.op = "write" /\ cod.need > cod.cap0 =>
       /\ Capacity(cod.w) >= cod.need + BUFFER_INC_SIZE
       /\ cod.kept


(***************************************************************************)
(* SpecCursor: the ReadMessageBuffer of Spec, fed frames whose payload      *)
(* begins with the tag of another frame or with a negative length.         *)
(***************************************************************************)
\* a message 'P' whose payload is the byte 'Z', then an empty message 'Z';
\* a message 'Z' whose payload begins with the byte 'P', then an empty
\* message 'P'; a string whose length prefix is -8, then an empty message
CursorStreams ==
  { << Frame(80, <<90>>), Frame(90, <<>>) >>,
    << Frame(90, <<80, 7>>), Frame(80, <<>>) >>,
    << Frame(80, <<255, 255, 255, 248>>), Frame(90, <<>>) >> }

InitCursor ==
  /\ rb = NewReadMessageBuffer
  /\ frb = ReadBufferAlloc
  /\ ret = [err |-> "", bool |-> FALSE]
  /\ plain = TRUE
  /\ frames \in CursorStreams
  /\ fed = 0
  /\ nDone = 0
  /\ NoSplit /\ InitWrite /\ NoConfig /\ NoRing /\ NoConn

SpecCursor == InitCursor /\ [][Next]_vars

\* the message the cursor is in is frame k of the stream: its tag has been
\* consumed and so has what the unread count says of its payload
InFrame(s, k) ==
  /\ k <= Len(frames)
  /\ s.curMessageType = frames[k].tag
  /\ s.curMessageLen = Len(frames[k].payload) + 4
  /\ fed - s.len = FrameEnd(k) - s.curMessageLenUnread

\* C33: in every state of the cursor, a takeMessageType(t) that returns true
\* leaves a current message that is ready, complete and of type t, and a
\* takeMessageType(t) at or in a frame whose tag is not t returns false and
\* consumes nothing.
C33_TakeMessageTypeExact ==
  \A t \in Tags : \A o \in takeMessageType(rb, t) :
    /\ (o.err = "" /\ o.bool) =>
         /\ o.rb.curMessageReady
         /\ o.rb.curMessageLenUnread <= o.rb.len
         /\ o.rb.curMessageType = t
    /\ (AtFrame /\ CurFrame.tag # t /\ o.err = ""
          /\ (NoCurrentMessage(rb) \/ InFrame(rb, nDone + 1))) =>
         /\ ~o.bool
         /\ o.rb.len = rb.len


(***************************************************************************)
(* ParameterStatus and LogMessage.                                         *)
(***************************************************************************)
\* the step is the pass of the loop body of call i on the message taken
FrameStepOf(i) ==
  /\ i <= Len(tasks) /\ Len(tasks') = Len(tasks)
  /\ tasks[i].phase \in Loops /\ tasks[i].status = "have"
  /\ tasks'[i] # tasks[i]

\* the settings differ from before by one entry at most, added or replaced
OneEntrySet(before, after) ==
  \E p \in after : after = MapSet(before, p[1], p[2])

\* C34: a pass of the loop body of connect, parse, describe or execute on a
\* ParameterStatus ('S') or a LogMessage ('L') consumes the frame entirely
\* and does not end the phase; an 'S' only adds or replaces one entry of the
\* server settings, an 'L' changes no field of the connection, and neither
\* changes the transaction status, the rows collected or the error captured.
C34_StatusAndLogPassThrough ==
  [][\A i \in 1..Len(tasks) :
       (FrameStepOf(i) /\ rb.curMessageType \in {chr_S, chr_L}) =>
         /\ tasks'[i] = [tasks[i] EXCEPT !.status = "run"]
         /\ NoCurrentMessage(rb') /\ rb'.curMessageLenUnread = 0
         /\ rb'.len = rb.len - rb.curMessageLenUnread
         /\ IF rb.curMessageType = chr_S
            THEN /\ cst' = [cst EXCEPT !.serverSettings = cst'.serverSettings]
                 /\ OneEntrySet(cst.serverSettings, cst'.serverSettings)
            ELSE cst' = cst]_vars


(***************************************************************************)
(* finishMessage().                                                        *)
(***************************************************************************)
\* C35: finishMessage() on a ready message with unread bytes throws
\* BufferError and leaves the buffer as it is; on a ready message read to its
\* end it sets type 0, length 0, unread 0 and not ready and touches nothing
\* else; with no message ready it does nothing.
C35_FinishMessage ==
  \A o \in {finishMessage(rb)} :
    /\ (rb.curMessageReady /\ rb.curMessageLenUnread > 0) =>
         o.err = "BufferError" /\ o.rb = rb
    /\ (rb.curMessageReady /\ rb.curMessageLenUnread = 0) =>
         /\ o.err = ""
         /\ o.rb = [rb EXCEPT !.curMessageType = 0, !.curMessageLen = 0,
                              !.curMessageLenUnread = 0,
                              !.curMessageReady = FALSE]
    /\ ~rb.curMessageReady => o.err = "" /\ o.rb = rb

\* a call has thrown on a ready message that is partly read, on which
\* finishMessage() throws
C35_Witness ==
  /\ ret.err = "BufferError"
  /\ rb.curMessageReady
  /\ rb.curMessageLenUnread > 0
  /\ rb.curMessageLenUnread < rb.curMessageLen - 4
  /\ finishMessage(rb).err = "BufferError"


(***************************************************************************)
(* The unread length between two feeds.                                    *)
(***************************************************************************)
\* C36: a step that is not a feed (a read, a take, a put, a discard, a
\* consume or a finish) leaves the unread length len of the buffer as it was
\* or smaller, whatever bytes the stream holds.
C36_LenNeverGrows ==
  [][fed' = fed => rb'.len <= rb.len]_vars


(***************************************************************************)
(* SpecPressure: the connection and the caller of SpecConn, the socket     *)
(* delivering one frame as its first six bytes and then byte by byte, and  *)
(* never failing.                                                          *)
(***************************************************************************)
\* the payload of the long frame: one byte in the first chunk, as many
\* chunks of one byte as the ring holds, and six more
LongPayload == [i \in 1..(BUFFER_RING_CAPACITY + 7) |-> 0]

\* a frame of a few chunks; a frame of more chunks than the ring holds
PressureStreams ==
  { << Frame(80, <<0, 0, 0>>) >>,
    << Frame(80, LongPayload) >> }

InitPressure ==
  /\ rb = NewReadMessageBuffer
  /\ frb = ReadBufferAlloc
  /\ ret = [err |-> "", bool |-> FALSE]
  /\ plain = TRUE
  /\ frames \in PressureStreams
  /\ fed = 0
  /\ nDone = 0
  /\ conn = NewAwaitConnection
  /\ pc = "connecting"
  /\ woke = Pending
  /\ NoClient
  /\ NoSplit /\ InitWrite /\ NoConfig /\ NoRing

\* the socket, not paused, emits 'data' with the next chunk: onData(data)
PressureData ==
  \E n \in {IF fed = 0 THEN 6 ELSE 1} :
    /\ conn.sock = "open"
    /\ fed + n <= Len(Stream)
    /\ fed' = fed + n
    /\ \E f \in {feed(rb, SubSeq(Stream, fed + 1, fed + n))} :
         \E c \in {onDataPause(conn, f.bool)} :
           IF f.err # ""
           THEN rb' = f.rb /\ UNCHANGED <<conn, woke>>
           ELSE IF ~c.messageWaiterResolve
           THEN rb' = f.rb /\ conn' = c /\ UNCHANGED woke
           ELSE \E o \in takeMessage(f.rb) :
                  /\ rb' = o.rb
                  /\ IF o.err = "" /\ o.bool
                     THEN /\ conn' = onDataResolve(c)
                          /\ woke' = [n |-> woke.n + 1, how |-> "resolve",
                                      by |-> "onData",
                                      complete |-> Complete(fed + n)]
                     ELSE conn' = c /\ UNCHANGED woke
    /\ UNCHANGED <<nDone, pc, notConn>>

NextPressure ==
  \/ OnConnect
  \/ PressureData
  \/ Connected
  \/ WaitForMessage
  \/ Resume
  \/ Process

SpecPressure == InitPressure /\ [][NextPressure]_vars

\* the socket delivers what it has whenever it is not paused, and the caller
\* goes on whenever it can
SpecPressureLive ==
  /\ SpecPressure
  /\ WF_vars(OnConnect)
  /\ WF_vars(PressureData)
  /\ WF_vars(Connected \/ WaitForMessage \/ Resume \/ Process)

\* the caller is suspended in waitForMessage, its promise is not settled and
\* the frame it waits for has not come whole
SuspendedWaiting == pc = "suspended" /\ woke.n = 0 /\ AtFrame /\ ~Complete(fed)

\* C37: while a caller is suspended in waitForMessage on a frame that has
\* not come whole, the transport is not paused; and, the transport
\* delivering the rest of the frame whenever it is not paused, a suspended
\* caller is eventually woken, also when the frame comes in more chunks than
\* the ring queues.
C37_NoDeadlockUnderBackpressure ==
  /\ [](SuspendedWaiting => (~conn.paused /\ conn.sock # "paused"))
  /\ (SuspendedWaiting ~> woke.n > 0)


(***************************************************************************)
(* The read buffer when a phase ends.                                      *)
(***************************************************************************)
\* in the step call i leaves the loop of connect, parse or execute (the
\* loops of parse are its first and the one after DescribeStatement): it
\* returns from it or throws
LeavesPhase(i) ==
  /\ i <= Len(tasks) /\ Len(tasks') = Len(tasks)
  /\ tasks[i].phase \in Loops
  /\ tasks'[i].phase \notin Loops

\* C38: when connect, parse or execute returns or throws, the read buffer
\* has no current message: the type is 0, no message is ready and nothing
\* is counted unread.
C38_PhaseEndsAtFrameBoundary ==
  [][\A i \in 1..Len(tasks) :
       LeavesPhase(i) =>
         NoCurrentMessage(rb') /\ rb'.curMessageLenUnread = 0]_vars


(***************************************************************************)
(* WriteMessageBuffer.reset().                                             *)
(***************************************************************************)
\* the buffer m is empty, no message is open in it, and a message begun and
\* ended in it is the tag and the length 4
EmptyAndClosed(m) ==
  /\ m.buffer.pos = 0
  /\ unwrap(m).err = "" /\ unwrap(m).buf = <<>>
  /\ \A mtype \in MessageTypes :
       \E b \in {beginMessage(m, mtype)} :
         /\ b.err = ""
         /\ \E e \in {endMessage(b.wb)} :
              /\ e.err = ""
              /\ unwrap(e.wb).err = ""
              /\ unwrap(e.wb).buf = <<mtype>> \o Int32Bytes(4)

\* C39: in whatever state reset() is called, the WriteMessageBuffer is empty
\* afterwards and has no open message: its position is 0, unwrap() returns
\* no byte, beginMessage succeeds, and the frame of a beginMessage and
\* endMessage that follow has the right length field.
C39_ResetEmptiesAndCloses == EmptyAndClosed(reset(wb))


(***************************************************************************)
(* SpecShort: the ReadMessageBuffer of Spec, fed frames whose length field *)
(* is given, not computed: 0, 2 and -1 among them.                         *)
(***************************************************************************)
\* a frame with the length field len
ShortFrame(t, len, p) == [tag |-> t, len |-> len, payload |-> p]

\* a frame of length 0 and an empty frame; a frame of length 2 and an empty
\* frame; a frame of length -1; a frame with a payload of two bytes; a string
\* whose length prefix is -8 and an empty frame
ShortStreams ==
  { << ShortFrame(80, 0, <<>>), ShortFrame(90, 4, <<>>) >>,
    << ShortFrame(80, 2, <<>>), ShortFrame(90, 4, <<>>) >>,
    << ShortFrame(80, 0 - 1, <<>>) >>,
    << ShortFrame(80, 6, <<5, 6>>) >>,
    << ShortFrame(80, 8, <<255, 255, 255, 248>>), ShortFrame(90, 4, <<>>) >> }

RECURSIVE ShortBytes(_)
ShortBytes(fs) ==
  IF fs = <<>> THEN <<>>
  ELSE <<Head(fs).tag>> \o Int32Bytes(Head(fs).len) \o Head(fs).payload
         \o ShortBytes(Tail(fs))

InitShort ==
  /\ rb = NewReadMessageBuffer
  /\ frb = ReadBufferAlloc
  /\ ret = [err |-> "", bool |-> FALSE]
  /\ plain = TRUE
  /\ frames \in ShortStreams
  /\ fed = 0
  /\ nDone = 0
  /\ NoSplit /\ InitWrite /\ NoConfig /\ NoRing /\ NoConn

\* feed(chunk) with the next bytes of the stream
ShortFeed ==
  \E n \in 1..MaxChunk :
    /\ InReach
    /\ fed + n <= Len(ShortBytes(frames))
    /\ RingLength(rb.bufs) < MaxQueued
    /\ \E o \in {feed(rb, SubSeq(ShortBytes(frames), fed + 1, fed + n))} :
         /\ rb' = o.rb
         /\ ret' = [err |-> o.err, bool |-> o.bool]
    /\ fed' = fed + n
    /\ UNCHANGED <<frb, plain, frames, nDone>>
    /\ UNCHANGED notRead

NextShort ==
  \/ ShortFeed
  \/ TakeMessage
  \/ TakeMessageType
  \/ ReadChar
  \/ ReadInt16
  \/ ReadInt32
  \/ ReadUInt16
  \/ ReadUInt32
  \/ ReadUUID
  \/ ReadString
  \/ ReadLenPrefixedBuffer
  \/ ReadBuffer
  \/ PutMessage
  \/ DiscardMessage
  \/ ConsumeMessage
  \/ ConsumeMessageInto
  \/ FinishMessage

SpecShort == InitShort /\ [][NextShort]_vars

\* the step leaves the current message the current message
SameMessage ==
  /\ rb.curMessageType # 0
  /\ rb'.curMessageType = rb.curMessageType
  /\ rb'.curMessageLen = rb.curMessageLen

\* C40: once the length of the current message is known, its unread count
\* is between 0 and curMessageLen - 4, so that a frame whose length field is
\* below 4 is never ready with a negative unread count; and a step that
\* leaves the current message the current message does not make its unread
\* count larger.
C40_UnreadWithinMessage ==
  /\ []((rb.curMessageReady \/ rb.curMessageLen # 0) =>
          /\ rb.curMessageLenUnread >= 0
          /\ rb.curMessageLenUnread <= rb.curMessageLen - 4)
  /\ [][SameMessage => rb'.curMessageLenUnread <= rb.curMessageLenUnread]_vars


====
